---- MODULE Spec2Model ----
(***************************************************************************)
(* LED Badge Designer: the frame pipeline (frame model, threshold engine,  *)
(* frame-file codec, timeline editor) and the application state around it. *)
(*                                                                         *)
(* Sizes are scaled: the badge grid is 48 x 11 and the caps are 120 / 80   *)
(* frames in src/src/config/constants.ts; the model keeps the names and    *)
(* the relations between them (MAX_VIDEO_FRAMES < MAX_FRAMES) at sizes TLC *)
(* can enumerate.                                                          *)
(***************************************************************************)
EXTENDS Integers, Sequences, FiniteSets, TLC

\* ---------------------------------------------------------------- bounds
\* src/src/config/constants.ts:1 (48), scaled
OUTPUT_WIDTH == 3
\* src/src/config/constants.ts:2 (11), scaled
OUTPUT_HEIGHT == 2
\* src/src/config/constants.ts:7 (120), scaled
MAX_FRAMES == 3
\* src/src/config/constants.ts:6 (80), scaled
MAX_VIDEO_FRAMES == 2
\* largest frame width / height the codec harness draws
MaxW == 4
MaxH == 3
\* longest frame sequence the codec harness draws
MaxCodecLen == 2

\* handlers and callbacks one run of the application is followed through
MaxOps == 6

\* significant bits of a number (53 in an IEEE double) and the longest time,
\* in the unit MIN_TRIM is given in
MantissaBits == 4
MaxTime == 40

\* ---------------------------------------------------------------- helpers
Min(a, b) == IF a <= b THEN a ELSE b
Max(a, b) == IF a >= b THEN a ELSE b
CeilDiv(a, b) == (a + b - 1) \div b

RECURSIVE Pow2(_)
Pow2(n) == IF n = 0 THEN 1 ELSE 2 * Pow2(n - 1)

\* bit k (0-based) of a byte: (b >> k) & 1
BitOf(b, k) == (b \div Pow2(k)) % 2

WHITE_SAMPLE == 255
BLACK_SAMPLE == 0

\* ---------------------------------------------------------------- base64
\* A base64 text is a sequence of symbols: 0..63 are the alphabet's sextets,
\* PAD is "=", BAD is any character outside the alphabet (not whitespace).
PAD == 64
BAD == 65

\* btoa / Buffer.toString("base64"): 3 bytes -> 4 sextets, "=" padding.
RECURSIVE toBase64(_)
toBase64(bytes) ==
  IF Len(bytes) = 0 THEN <<>>
  ELSE IF Len(bytes) = 1 THEN
    << bytes[1] \div 4, (bytes[1] % 4) * 16, PAD, PAD >>
  ELSE IF Len(bytes) = 2 THEN
    << bytes[1] \div 4, (bytes[1] % 4) * 16 + bytes[2] \div 16,
       (bytes[2] % 16) * 4, PAD >>
  ELSE
    << bytes[1] \div 4, (bytes[1] % 4) * 16 + bytes[2] \div 16,
       (bytes[2] % 16) * 4 + bytes[3] \div 64, bytes[3] % 64 >>
    \o toBase64(SubSeq(bytes, 4, Len(bytes)))

\* The bytes of a run of sextets: 4 -> 3 bytes, a tail of 3 -> 2, of 2 -> 1,
\* of 1 -> none (left-over bits are dropped).
RECURSIVE SextetsToBytes(_)
SextetsToBytes(s) ==
  IF Len(s) < 2 THEN <<>>
  ELSE IF Len(s) = 2 THEN << s[1] * 4 + s[2] \div 16 >>
  ELSE IF Len(s) = 3 THEN
    << s[1] * 4 + s[2] \div 16, (s[2] % 16) * 16 + s[3] \div 4 >>
  ELSE
    << s[1] * 4 + s[2] \div 16, (s[2] % 16) * 16 + s[3] \div 4,
       (s[3] % 4) * 64 + s[4] >>
    \o SextetsToBytes(SubSeq(s, 5, Len(s)))

\* atob (forgiving-base64 decode): strip at most two trailing "=" when the
\* length is a multiple of 4; a length of 1 mod 4 or any symbol outside the
\* alphabet is an InvalidCharacterError.
AtobStripped(encoded) ==
  LET n == Len(encoded) IN
  IF n > 0 /\ n % 4 = 0 /\ encoded[n] = PAD
  THEN IF n > 1 /\ encoded[n - 1] = PAD
       THEN SubSeq(encoded, 1, n - 2)
       ELSE SubSeq(encoded, 1, n - 1)
  ELSE encoded

AtobThrows(encoded) ==
  LET s == AtobStripped(encoded) IN
  \/ Len(s) % 4 = 1
  \/ \E i \in 1..Len(s) : s[i] > 63

\* Buffer.from(encoded, "base64"): symbols outside the alphabet are skipped,
\* decoding stops at the first "=". Never throws.
RECURSIVE BufferSextets(_)
BufferSextets(encoded) ==
  IF Len(encoded) = 0 \/ encoded[1] = PAD THEN <<>>
  ELSE IF encoded[1] > 63 THEN BufferSextets(Tail(encoded))
  ELSE << encoded[1] >> \o BufferSextets(Tail(encoded))

\* fromBase64: [ok, bytes]; ok = FALSE is the exception atob raises.
fromBase64(encoded, hasAtob) ==
  IF hasAtob
  THEN IF AtobThrows(encoded)
       THEN [ok |-> FALSE, bytes |-> <<>>]
       ELSE [ok |-> TRUE, bytes |-> SextetsToBytes(AtobStripped(encoded))]
  ELSE [ok |-> TRUE, bytes |-> SextetsToBytes(BufferSextets(encoded))]

\* ---------------------------------------------------------------- codec
\* a packer that fills each byte from its most significant bit down
RECURSIVE PackByteMsbFirst(_, _, _)
PackByteMsbFirst(data, byteIndex, bitIndex) ==
  IF bitIndex > 7 THEN 0
  ELSE LET i == byteIndex * 8 + bitIndex IN
       (IF i < Len(data) /\ data[i + 1] = 0 THEN Pow2(7 - bitIndex) ELSE 0)
       + PackByteMsbFirst(data, byteIndex, bitIndex + 1)

\* bytes[byteIndex] |= 1 << bitIndex for every black sample of the byte
RECURSIVE PackByte(_, _, _)
PackByte(data, byteIndex, bitIndex) ==
  IF bitIndex > 7 THEN 0
  ELSE LET i == byteIndex * 8 + bitIndex IN
       (IF i < Len(data) /\ data[i + 1] = 0 THEN Pow2(bitIndex) ELSE 0)
       + PackByte(data, byteIndex, bitIndex + 1)

PackedBytes(frame) ==
  LET totalPixels == frame.width * frame.height
      byteLength == CeilDiv(totalPixels, 8)
      \* frame.data[i] for i < totalPixels; a missing sample is not black
      px == [i \in 1..totalPixels |->
               IF i <= Len(frame.data) THEN frame.data[i] ELSE WHITE_SAMPLE]
  IN [b \in 1..byteLength |-> PackByte(px, b - 1, 0)]

packFrameData(frame) == toBase64(PackedBytes(frame))

\* a decoder that reads the bits of a byte from the most significant end
UnpackedSampleMsbFirst(bytes, i) ==
  LET byteIndex == i \div 8
      bitIndex == 7 - (i % 8)
      byte == IF byteIndex < Len(bytes) THEN bytes[byteIndex + 1] ELSE 0
  IN IF (byte \div Pow2(bitIndex)) % 2 = 1 THEN 0 ELSE 255

\* isBlack = (bytes[byteIndex] >> bitIndex) & 1; a byte past the end of the
\* decoded payload reads as undefined, and undefined >> n is 0 (white).
UnpackedSample(bytes, i) ==
  LET byteIndex == i \div 8
      bitIndex == i % 8
      byte == IF byteIndex < Len(bytes) THEN bytes[byteIndex + 1] ELSE 0
  IN IF BitOf(byte, bitIndex) = 1 THEN BLACK_SAMPLE ELSE WHITE_SAMPLE

unpackFrameData(packed, width, height, hasAtob) ==
  LET dec == fromBase64(packed, hasAtob)
      totalPixels == width * height
  IN [ok |-> dec.ok,
      data |-> IF dec.ok
               THEN [i \in 1..totalPixels |-> UnpackedSample(dec.bytes, i - 1)]
               ELSE <<>>]

ERR_NONE == "none"
ERR_NO_FRAMES_TO_SAVE == "No frames to save."
ERR_UNSUPPORTED == "Unsupported frame file format."
ERR_NO_FRAMES == "Frame file has no frames."
ERR_INVALID_CHARACTER == "InvalidCharacterError"

\* A frame file: version, width, height, speed (0 = not given), frames
\* (hasFrames = FALSE: the property is absent or not an array).
MkFile(version, width, height, speed, hasFrames, payloads) ==
  [version |-> version, width |-> width, height |-> height, speed |-> speed,
   hasFrames |-> hasFrames, frames |-> payloads]

NoFile == MkFile(0, 0, 0, 0, FALSE, <<>>)

framesToFile(fs, speed) ==
  IF Len(fs) = 0
  THEN [ok |-> FALSE, error |-> ERR_NO_FRAMES_TO_SAVE, file |-> NoFile]
  ELSE LET width == IF fs[1].width # 0 THEN fs[1].width ELSE OUTPUT_WIDTH
           height == IF fs[1].height # 0 THEN fs[1].height ELSE OUTPUT_HEIGHT
       IN [ok |-> TRUE, error |-> ERR_NONE,
           file |-> MkFile(1, width, height, speed, TRUE,
                           [k \in 1..Len(fs) |-> packFrameData(fs[k])])]

\* a version check that lets later versions through
IsSupportedVersionOrLater(file) == file.version >= 1

IsSupportedVersion(file) == file.version = 1

HasNoFrames(file) == ~file.hasFrames \/ Len(file.frames) = 0

\* fileToFrames: the version check, then the frame-list check, then one
\* unpackFrameData per payload (the first payload atob rejects aborts the
\* map with its exception). Decoded frames get the ids firstId, firstId+1, ..
fileToFrames(file, firstId, hasAtob) ==
  IF ~IsSupportedVersion(file)
  THEN [ok |-> FALSE, error |-> ERR_UNSUPPORTED, frames |-> <<>>, speed |-> 0]
  ELSE
    LET width == IF file.width # 0 THEN file.width ELSE OUTPUT_WIDTH
        height == IF file.height # 0 THEN file.height ELSE OUTPUT_HEIGHT
    IN IF HasNoFrames(file)
       THEN [ok |-> FALSE, error |-> ERR_NO_FRAMES, frames |-> <<>>, speed |-> 0]
       ELSE
         LET unpacked == [k \in 1..Len(file.frames) |->
                            unpackFrameData(file.frames[k], width, height, hasAtob)]
         IN IF \E k \in 1..Len(unpacked) : ~unpacked[k].ok
            THEN [ok |-> FALSE, error |-> ERR_INVALID_CHARACTER,
                  frames |-> <<>>, speed |-> 0]
            ELSE [ok |-> TRUE, error |-> ERR_NONE,
                  frames |-> [k \in 1..Len(unpacked) |->
                                [id |-> firstId + k - 1, width |-> width,
                                 height |-> height, data |-> unpacked[k].data]],
                  speed |-> file.speed]


\* ---------------------------------------------------------------- frames
MkFrame(id, width, height, data) ==
  [id |-> id, width |-> width, height |-> height, data |-> data]

Filled(n, value) == [i \in 1..n |-> value]

\* one sample differs from the rest
OneOff(n, k, value, rest) == [i \in 1..n |-> IF i = k THEN value ELSE rest]

Checker(n) == [i \in 1..n |-> IF i % 2 = 1 THEN BLACK_SAMPLE ELSE WHITE_SAMPLE]

IsBinary(data) == \A i \in 1..Len(data) : data[i] \in {BLACK_SAMPLE, WHITE_SAMPLE}

Ids(fs) == {fs[k].id : k \in 1..Len(fs)}

\* ---------------------------------------------------------------- state
VARIABLES
  \* codec harness: framesToFile / fileToFrames applied to drawn inputs
  hasAtob,      \* typeof atob === "function" in this runtime
  cpc,          \* "off" | "seq" | "encfail" | "file" | "unpacking" | "decoded" | "failed"
  cSeq,         \* the frame sequence handed to framesToFile
  cFile,        \* the frame file handed to fileToFrames
  cOrigin,      \* "none" | "encoded" | "truncated" | "raw"
  cK,           \* payloads unpacked so far by the running fileToFrames
  cOut,         \* frames fileToFrames has produced / returned
  cErr,         \* the error framesToFile / fileToFrames / renderFramesToSpritePNG failed with
  cSprite,      \* the canvas renderFramesToSpritePNG draws on, then the sprite it returns
  \* sampling harness: one frame slot of renderFrames on drawn inputs
  smp,          \* [pc, image, cropArea, threshold, invertOutput, canvas, frames, delivered, error]
  \* trim harness: clampTrim on drawn inputs, then on its own result
  trim,         \* [pc, start, duration, videoDuration, spanLimit, result, again]
  \* the application (BadgeApp, PixelEditorPanel, VideoPanel)
  panel,        \* which PixelEditorPanel is built in: "grid" | "dotting"
  hydratedFromStorage, \* BadgeApp: the mount effects have run
  examples,     \* BadgeApp: the loaded example animations
  frames,       \* BadgeApp: the frame sequence (state)
  framesRef,    \* BadgeApp: framesRef.current
  mode,         \* BadgeApp: "video" | "pixel"
  activeId,     \* PixelEditorPanel: id of the frame being edited (0: not mounted / "")
  video,        \* VideoPanel: [kind: "none" | "video" | "gif", ready, ms, est]
  ext,          \* VideoPanel: progress.status and the extraction run in flight
  sprite,       \* BadgeApp: the sprite shown and the render awaited, each by the frames it draws
  cancelRef,    \* VideoPanel: cancelRef.current
  lastOp,       \* the handler that ran last, with what it was given
  ops           \* handlers and callbacks run so far

codecVars == << hasAtob, cpc, cSeq, cFile, cOrigin, cK, cOut, cErr, cSprite >>

appVars == << panel, hydratedFromStorage, examples, frames, framesRef,
              mode, activeId, video, ext, cancelRef, sprite, lastOp, ops >>

samplerVars == << smp, trim >>

vars == << codecVars, appVars, samplerVars >>

\* ---------------------------------------------------------------- frame model
\* createBlankFrame: new Uint8ClampedArray(n) is zero-filled
createBlankFrame(id) ==
  MkFrame(id, OUTPUT_WIDTH, OUTPUT_HEIGHT, Filled(OUTPUT_WIDTH * OUTPUT_HEIGHT, 0))

\* a copy that keeps the id of its source
cloneFrameKeepingId(frame, id) == MkFrame(frame.id, frame.width, frame.height, frame.data)

cloneFrame(frame, id) == MkFrame(id, frame.width, frame.height, frame.data)

\* an id source that hands out the same id every time
FreshBaseStale(used, n) == 1

\* crypto.randomUUID(): an id no live object carries. FreshBase(used, n) is
\* the first of n consecutive unused ids.
FreshBase(used, n) ==
  CHOOSE b \in 1..(Cardinality(used) * n + 1 + n) :
    /\ \A j \in 0..(n - 1) : (b + j) \notin used
    /\ \A c \in 1..(b - 1) : \E j \in 0..(n - 1) : (c + j) \in used

\* frames.findIndex(f => f.id === id) + 1; 0 when there is none
IndexOfId(fs, id) ==
  IF id \in Ids(fs)
  THEN CHOOSE k \in 1..Len(fs) : fs[k].id = id /\ \A j \in 1..(k - 1) : fs[j].id # id
  ELSE 0

\* frames.filter(f => f.id !== id)
WithoutId(fs, id) == SelectSeq(fs, LAMBDA f : f.id # id)

\* frames.map(f => f.id === id ? { ...f, data } : f)
WithData(fs, id, data) ==
  [k \in 1..Len(fs) |-> IF fs[k].id = id THEN [fs[k] EXCEPT !.data = data] ELSE fs[k]]

\* next = [...frames]; [removed] = next.splice(index, 1); next.splice(target, 0, removed)
Spliced(fs, index, target) ==
  LET removed == fs[index]
      rest == SubSeq(fs, 1, index - 1) \o SubSeq(fs, index + 1, Len(fs))
  IN SubSeq(rest, 1, target - 1) \o << removed >> \o SubSeq(rest, target, Len(rest))

\* clampFrames: frames.slice(0, MAX_FRAMES || frames.length)
clampFrames(fs) ==
  SubSeq(fs, 1, Min(Len(fs), IF MAX_FRAMES # 0 THEN MAX_FRAMES ELSE Len(fs)))

\* ---------------------------------------------------------------- persistence
\* a stored frame; valid = FALSE is an entry hydrateFrames drops (null, or an
\* id / width / height / data of the wrong type)
MkStored(valid, id, width, height, data) ==
  [valid |-> valid, id |-> id, width |-> width, height |-> height, data |-> data]

serializeFrames(fs) ==
  [k \in 1..Len(fs) |-> MkStored(TRUE, fs[k].id, fs[k].width, fs[k].height, fs[k].data)]

\* the stored value copied as it is; a missing one reads as 0
HydratedSampleRaw(stored, i) ==
  IF i <= Len(stored.data) THEN stored.data[i] ELSE 0

\* data[i] = frame.data[i] === 0 ? 0 : 255, for i < width * height
HydratedSample(stored, i) ==
  IF i <= Len(stored.data) /\ stored.data[i] = 0 THEN 0 ELSE 255

\* a hydration that numbers the frames anew instead of keeping the stored id
HydratedFrameRenumbered(stored) ==
  MkFrame(0, stored.width, stored.height,
          [i \in 1..(stored.width * stored.height) |-> HydratedSample(stored, i)])

HydratedFrame(stored) ==
  MkFrame(stored.id, stored.width, stored.height,
          [i \in 1..(stored.width * stored.height) |-> HydratedSample(stored, i)])

hydrateFrames(stored) ==
  LET kept == SelectSeq(stored, LAMBDA f : f.valid)
  IN [k \in 1..Len(kept) |-> HydratedFrame(kept[k])]

\* ---------------------------------------------------------------- threshold engine
\* A pixel is <<r, g, b>>. gray = 0.299*r + 0.587*g + 0.114*b in IEEE doubles:
\* the exact value is Luma1000 / 1000; where that is a whole number the sum
\* of the three rounded products can fall one ulp short of it.
Luma1000(px) == 299 * px[1] + 587 * px[2] + 114 * px[3]

\* colours of the palette whose double sum falls short of the whole number
\* (0.299*128 + 0.587*128 + 0.114*128 = 127.99999999999999)
RoundsBelow == {<<128, 128, 128>>, <<127, 127, 127>>}

\* gray >= threshold, for a whole-number threshold
GrayAtLeast(px, threshold) ==
  IF px \in RoundsBelow
  THEN Luma1000(px) > 1000 * threshold
  ELSE Luma1000(px) >= 1000 * threshold

ThresholdedSample(px, threshold, invertOutput) ==
  LET val == IF GrayAtLeast(px, threshold) THEN 0 ELSE 255
  IN IF invertOutput THEN (IF val = 0 THEN 255 ELSE 0) ELSE val

\* thresholdFrame(imageData): one output sample per RGBA pixel
thresholdFrame(image, threshold, invertOutput) ==
  [i \in 1..Len(image) |-> ThresholdedSample(image[i], threshold, invertOutput)]

\* ctx.drawImage(source, cropArea.x, cropArea.y, cropArea.width,
\* cropArea.height, 0, 0, OUTPUT_WIDTH, OUTPUT_HEIGHT) on the fresh canvas,
\* read back by getImageData. `image` is the part of the source under the
\* crop rectangle (corners normalised when a side is negative) scaled to the
\* badge size. A rectangle with a zero side paints nothing, and the canvas
\* stays transparent black; thresholdFrame does not read the alpha channel.
drawImage(image, cropArea) ==
  IF cropArea.width = 0 \/ cropArea.height = 0
  THEN [i \in 1..Len(image) |-> <<0, 0, 0>>]
  ELSE image

\* SPEEDS, the rates in tenths of a frame per second
SPEEDS ==
  << [speed |-> 8, fps10 |-> 150], [speed |-> 7, fps10 |-> 75],
     [speed |-> 6, fps10 |-> 45], [speed |-> 5, fps10 |-> 28],
     [speed |-> 4, fps10 |-> 24], [speed |-> 3, fps10 |-> 20],
     [speed |-> 2, fps10 |-> 13], [speed |-> 1, fps10 |-> 12] >>

\* the table searched from its last entry, falling back to the last entry
speedToFpsFromEnd(speed) ==
  LET hits == {k \in 1..Len(SPEEDS) : SPEEDS[k].speed = speed}
  IN IF hits = {} THEN SPEEDS[Len(SPEEDS)].fps10
     ELSE SPEEDS[CHOOSE k \in hits : \A j \in hits : j <= k].fps10

\* SPEEDS.find(entry => entry.speed === speed)?.fps ?? SPEEDS[0].fps
speedToFps(speed) ==
  LET hits == {k \in 1..Len(SPEEDS) : SPEEDS[k].speed = speed}
  IN IF hits = {} THEN SPEEDS[1].fps10
     ELSE SPEEDS[CHOOSE k \in hits : \A j \in hits : k <= j].fps10

\* the sampling harness at rest
NoSample ==
  [pc |-> "off", image |-> <<>>, cropArea |-> [width |-> 0, height |-> 0],
   threshold |-> 0, invertOutput |-> FALSE, speed |-> 0, fps10 |-> 0,
   canvas |-> <<>>, frames |-> <<>>, delivered |-> <<>>, error |-> "none"]

\* --- trim arithmetic. Times are numbers of MantissaBits significant bits;
\* a sum or difference is rounded to the nearest such number, ties to the
\* even mantissa. Min and max are exact.
Exponent(x) ==
  CHOOSE e \in 0..MaxTime :
    /\ x \div Pow2(e) < Pow2(MantissaBits)
    /\ e > 0 => x \div Pow2(e - 1) >= Pow2(MantissaBits)

RoundNearest(x) ==
  IF x < 0 THEN 0 - (LET y == 0 - x
                         e == Exponent(y)
                         q == y \div Pow2(e)
                         r == y % Pow2(e)
                     IN IF 2 * r > Pow2(e) \/ (2 * r = Pow2(e) /\ q % 2 = 1)
                        THEN (q + 1) * Pow2(e) ELSE q * Pow2(e))
  ELSE LET e == Exponent(x)
           q == x \div Pow2(e)
           r == x % Pow2(e)
       IN IF 2 * r > Pow2(e) \/ (2 * r = Pow2(e) /\ q % 2 = 1)
          THEN (q + 1) * Pow2(e) ELSE q * Pow2(e)

\* 0.01 s, the shortest trim
MIN_TRIM == 4

\* clampTrim(start, requestedDuration, videoDuration, spanLimitSeconds) for
\* finite arguments
clampTrim(start, requestedDuration, videoDuration, spanLimitSeconds) ==
  LET durationCap == Min(Max(videoDuration, 0), spanLimitSeconds)
      minDuration == IF durationCap > 0 THEN Min(MIN_TRIM, durationCap) ELSE 0
      safeDuration == requestedDuration
      limitedDuration == IF durationCap > 0
                         THEN Min(Max(safeDuration, minDuration), durationCap)
                         ELSE 0
      clampedDuration == Max(minDuration, limitedDuration)
      maxStart == Max(0, RoundNearest(videoDuration - clampedDuration))
      clampedStart == Min(Max(start, 0), maxStart)
      end == Min(videoDuration, RoundNearest(clampedStart + clampedDuration))
  IN [start |-> clampedStart,
      duration |-> Max(minDuration, RoundNearest(end - clampedStart)),
      end |-> end]

\* the trim harness at rest
NoTrim ==
  [pc |-> "off", start |-> 0, duration |-> 0, videoDuration |-> 0, spanLimit |-> 0,
   result |-> [start |-> 0, duration |-> 0, end |-> 0],
   again |-> [start |-> 0, duration |-> 0, end |-> 0]]

\* min(MAX_VIDEO_FRAMES, ceil(effectiveDuration * fps)), the duration in
\* milliseconds and the rate in tenths of a frame per second
estimatedFramesUncapped(effectiveMs, fps10) ==
  CeilDiv(effectiveMs * fps10, 10000)

estimatedFrames(effectiveMs, fps10) ==
  Min(MAX_VIDEO_FRAMES, CeilDiv(effectiveMs * fps10, 10000))

\* ---------------------------------------------------------------- timeline editor
\* What a panel handler leaves behind: the sequence it handed to onChange (or
\* the one it was given, when it returned early) and the active id.
PanelResult(fs, active) == [frames |-> fs, active |-> active]

\* frames.find(f => f.id === activeId) ?? frames[0] ?? createBlankFrame()
ActiveFrame(fs, a, nid) ==
  IF IndexOfId(fs, a) # 0 THEN fs[IndexOfId(fs, a)]
  ELSE IF Len(fs) > 0 THEN fs[1]
  ELSE createBlankFrame(nid)

\* --- the panel of src/src/components/PixelEditorPanel.tsx ("grid")
\* FrameGrid.handleToggle(index) and updateFrame(activeFrame.id, next)
gridToggle(fs, a, index, nid) ==
  LET frame == ActiveFrame(fs, a, nid)
      next == [i \in 1..Len(frame.data) |->
                 IF i = index + 1
                 THEN (IF frame.data[i] = 0 THEN 255 ELSE 0)
                 ELSE frame.data[i]]
  IN PanelResult(WithData(fs, frame.id, next), a)

\* addFrame without its length check and clamp
gridAddFrameUnbounded(fs, a, nid) ==
  PanelResult(Append(fs, createBlankFrame(nid)), a)

gridAddFrame(fs, a, nid) ==
  IF MAX_FRAMES # 0 /\ Len(fs) >= MAX_FRAMES THEN PanelResult(fs, a)
  ELSE PanelResult(clampFrames(Append(fs, createBlankFrame(nid))), a)

gridDuplicateFrame(fs, a, nid) ==
  IF MAX_FRAMES # 0 /\ Len(fs) >= MAX_FRAMES THEN PanelResult(fs, a)
  ELSE PanelResult(clampFrames(Append(fs, cloneFrame(ActiveFrame(fs, a, nid),
                                             IF Len(fs) > 0 THEN nid ELSE nid + 1))), a)

\* deleteFrame without its length check
gridDeleteFrameUnguarded(fs, a) ==
  LET next == WithoutId(fs, a)
  IN PanelResult(next, IF Len(next) > 0 THEN next[1].id ELSE a)

\* next[0].id of an empty next throws after onChange(next) has been called
gridDeleteFrame(fs, a) ==
  IF Len(fs) <= 1 THEN PanelResult(fs, a)
  ELSE LET next == WithoutId(fs, a)
       IN PanelResult(next, IF Len(next) > 0 THEN next[1].id ELSE a)

gridMoveFrame(fs, a, direction) ==
  LET index == IndexOfId(fs, a)
      target == index + direction
  IN IF index = 0 \/ target < 1 \/ target > Len(fs) THEN PanelResult(fs, a)
     ELSE PanelResult(Spliced(fs, index, target), a)

\* clearFrame: data: new Uint8ClampedArray(frame.data.length), zero-filled
gridClearFrame(fs, a) ==
  PanelResult([k \in 1..Len(fs) |->
                 IF fs[k].id = a
                 THEN [fs[k] EXCEPT !.data = Filled(Len(fs[k].data), 0)]
                 ELSE fs[k]], a)

gridFillFrame(fs, a, value, nid) ==
  LET filled == Filled(Len(ActiveFrame(fs, a, nid).data), value)
  IN PanelResult(WithData(fs, a, filled), a)

\* --- the panel of src/unnamed/part_003 ("dotting")
\* updateFrames: clamp what the updater returned, hand it to onChange, then
\* settle the active id (preferred, else the current one, else the first)
updateFrames(updated, preferredActiveId, a) ==
  LET next == clampFrames(updated)
      t1 == IF preferredActiveId # 0 /\ preferredActiveId \in Ids(next)
            THEN preferredActiveId ELSE 0
      t2 == IF t1 = 0 /\ a \in Ids(next) THEN a ELSE t1
      t3 == IF t2 = 0 /\ Len(next) > 0 THEN next[1].id ELSE t2
  IN PanelResult(next, IF t3 # 0 THEN t3 ELSE a)

dottingAddFrame(fs, a, nid) ==
  LET newFrame == createBlankFrame(nid)
  IN updateFrames(IF MAX_FRAMES # 0 /\ Len(fs) >= MAX_FRAMES
                  THEN fs ELSE Append(fs, newFrame), nid, a)

dottingDuplicateFrame(fs, a, nid) ==
  IF IndexOfId(fs, a) = 0 THEN PanelResult(fs, a)
  ELSE LET newFrame == cloneFrame(fs[IndexOfId(fs, a)], nid)
       IN updateFrames(IF MAX_FRAMES # 0 /\ Len(fs) >= MAX_FRAMES
                       THEN fs ELSE Append(fs, newFrame), nid, a)

\* deleteFrame without its length check
dottingDeleteFrameUnguarded(fs, a, nid) ==
  updateFrames(LET filtered == WithoutId(fs, a)
               IN IF Len(filtered) > 0 THEN filtered
                  ELSE << createBlankFrame(nid) >>,
               0, a)

dottingDeleteFrame(fs, a, nid) ==
  updateFrames(IF Len(fs) <= 1 THEN fs
               ELSE LET filtered == WithoutId(fs, a)
                    IN IF Len(filtered) > 0 THEN filtered
                       ELSE << createBlankFrame(nid) >>,
               0, a)

dottingMoveFrame(fs, a, direction) ==
  LET index == IndexOfId(fs, a)
      target == index + direction
  IN updateFrames(IF index = 0 \/ target < 1 \/ target > Len(fs) THEN fs
                  ELSE Spliced(fs, index, target), 0, a)

dottingFillFrame(fs, a, value) ==
  updateFrames([k \in 1..Len(fs) |->
                  IF fs[k].id = a
                  THEN [fs[k] EXCEPT !.data = Filled(Len(fs[k].data), value)]
                  ELSE fs[k]], 0, a)

\* The Dotting canvas is a fixed OUTPUT_HEIGHT x OUTPUT_WIDTH grid; a layer is
\* its cells in row-major order, TRUE where the cell is black.
\* frameToLayerData: cell (row, col) is black iff frame.data[row*OUTPUT_WIDTH+col] === 0
frameToLayerData(frame) ==
  [c \in 1..(OUTPUT_HEIGHT * OUTPUT_WIDTH) |-> c <= Len(frame.data) /\ frame.data[c] = 0]

\* layerDataToFrame: a white buffer of baseFrame.width * baseFrame.height
\* samples; every cell inside the base frame's bounds writes sample
\* rowIndex * baseFrame.width + columnIndex
layerDataToFrame(layer, baseFrame) ==
  [baseFrame EXCEPT !.data =
     [i \in 1..(baseFrame.width * baseFrame.height) |->
        LET row == (i - 1) \div baseFrame.width
            col == (i - 1) % baseFrame.width
        IN IF row < OUTPUT_HEIGHT /\ col < OUTPUT_WIDTH
              /\ layer[row * OUTPUT_WIDTH + col + 1]
           THEN 0 ELSE 255]]

\* the canvas after a brush stroke of one colour on one cell
StrokedLayer(frame, row, col, black) ==
  [frameToLayerData(frame) EXCEPT ![row * OUTPUT_WIDTH + col + 1] = black]

\* pushCanvasToFrames: no clamp, the active id stays
pushCanvasToFrames(fs, a, layer) ==
  IF IndexOfId(fs, a) = 0 THEN PanelResult(fs, a)
  ELSE LET currentActive == fs[IndexOfId(fs, a)]
           nextFrame == layerDataToFrame(layer, currentActive)
       IN PanelResult([k \in 1..Len(fs) |->
                         IF fs[k].id = currentActive.id THEN nextFrame ELSE fs[k]], a)

\* The effect each panel runs after a render: an active id that is not in the
\* sequence falls back to the first frame; the dotting panel also replaces an
\* empty sequence by one blank frame.
PanelEffect(p, fs, a, nid) ==
  IF Len(fs) = 0
  THEN IF p = "dotting"
       THEN PanelResult(<< createBlankFrame(nid) >>, nid)
       ELSE PanelResult(fs, a)
  ELSE IF a \notin Ids(fs) THEN PanelResult(fs, fs[1].id)
  ELSE PanelResult(fs, a)

\* ---------------------------------------------------------------- sprite compositor
\* A raster is [width, height, px]: px holds the pixels in row-major order,
\* each <<R, G, B, A>>. A fresh canvas is transparent black.
TRANSPARENT == << 0, 0, 0, 0 >>

NoSprite == [frameCount |-> 0, width |-> 0, height |-> 0, px |-> <<>>]

NewCanvas(width, height) ==
  [frameCount |-> 0, width |-> width, height |-> height,
   px |-> [i \in 1..(width * height) |-> TRANSPARENT]]

\* expandToRgba: R = G = B = sample, A = 255
expandToRgba(data) ==
  [i \in 1..Len(data) |-> << data[i], data[i], data[i], 255 >>]

\* new ImageData(rgba, sw, sh) throws unless rgba holds sw * sh pixels, sw > 0
ImageDataThrows(frame) ==
  frame.width <= 0 \/ frame.height <= 0 \/ Len(frame.data) # frame.width * frame.height

\* ctx.putImageData(new ImageData(expandToRgba(frame.data), frame.width,
\* frame.height), dx, 0): the image's pixels replace the canvas pixels under
\* them; what falls outside the canvas is dropped
putImageData(canvas, frame, dx) ==
  LET rgba == expandToRgba(frame.data)
  IN [canvas EXCEPT !.px =
        [i \in 1..(canvas.width * canvas.height) |->
           LET x == (i - 1) % canvas.width
               y == (i - 1) \div canvas.width
           IN IF x >= dx /\ x < dx + frame.width /\ y < frame.height
              THEN rgba[y * frame.width + (x - dx) + 1]
              ELSE canvas.px[i]]]

ERR_NO_FRAMES_TO_RENDER == "No frames to render"
ERR_IMAGE_DATA == "ImageData: the input data length is not width * height"

\* renderFramesToSpritePNG without its check of frames.length
SpriteRejectsNothing(fs) == FALSE

\* renderFramesToSpritePNG: if (!frames.length) throw
SpriteRejects(fs) == Len(fs) = 0

\* the canvas renderFramesToSpritePNG allocates
SpriteCanvas(fs) == NewCanvas(OUTPUT_WIDTH * Len(fs), OUTPUT_HEIGHT)

\* frames.forEach((frame, index) => ctx.putImageData(..., index * OUTPUT_WIDTH, 0)),
\* one turn, index 0-based
SpriteBlitted(canvas, frame, index) == putImageData(canvas, frame, index * OUTPUT_WIDTH)

\* the pixel of a raster at column x, row y (0-based)
PixelAt(raster, x, y) == raster.px[y * raster.width + x + 1]

\* ---------------------------------------------------------------- application inputs
\* files as a user may hand them in: any version tag, a missing, empty or
\* populated frame list, payloads that are sound or not base64 at all
BadPayload == << 0, BAD, 0, 0 >>

\* speedToFps(DEFAULT_SPEED) = 15 frames per second, in tenths
DEFAULT_FPS10 == 150

StdSize == OUTPUT_WIDTH * OUTPUT_HEIGHT

\* what loadAppState() may find in local storage
StoredIdBase == 100

StoredStates ==
  { [present |-> FALSE, mode |-> "video", frames |-> <<>>],
    \* one frame of the badge size, saved in pixel mode
    [present |-> TRUE, mode |-> "pixel",
     frames |-> << MkStored(TRUE, StoredIdBase + 1, OUTPUT_WIDTH, OUTPUT_HEIGHT,
                            Checker(StdSize)) >>],
    \* a frame of another size with a gray sample and too few samples,
    \* next to an entry that is not a frame
    [present |-> TRUE, mode |-> "video",
     frames |-> << MkStored(FALSE, 0, 0, 0, <<>>),
                   MkStored(TRUE, StoredIdBase + 1, 2, 1, << 7 >>) >>],
    \* nothing but an entry that is not a frame
    [present |-> TRUE, mode |-> "pixel",
     frames |-> << MkStored(FALSE, 0, 0, 0, <<>>) >>],
    \* one frame more than MAX_FRAMES
    [present |-> TRUE, mode |-> "video",
     frames |-> [k \in 1..(MAX_FRAMES + 1) |->
                   MkStored(TRUE, StoredIdBase + k, OUTPUT_WIDTH, OUTPUT_HEIGHT,
                            Filled(StdSize, 255))]] }

\* frame files the user may pick
AppFiles ==
  { \* one checkered frame of the badge size
    MkFile(1, OUTPUT_WIDTH, OUTPUT_HEIGHT, 0, TRUE,
           << packFrameData(MkFrame(0, OUTPUT_WIDTH, OUTPUT_HEIGHT, Checker(StdSize))) >>),
    \* two frames of 2 x 1
    MkFile(1, 2, 1, 0, TRUE,
           << packFrameData(MkFrame(0, 2, 1, << 0, 255 >>)),
              packFrameData(MkFrame(0, 2, 1, << 255, 255 >>)) >>),
    \* one frame more than MAX_FRAMES
    MkFile(1, OUTPUT_WIDTH, OUTPUT_HEIGHT, 0, TRUE,
           [k \in 1..(MAX_FRAMES + 1) |->
              packFrameData(MkFrame(0, OUTPUT_WIDTH, OUTPUT_HEIGHT, Filled(StdSize, 0)))]),
    \* a payload cut to nothing
    MkFile(1, OUTPUT_WIDTH, OUTPUT_HEIGHT, 0, TRUE, << <<>> >>),
    \* an unknown version, an empty frame list, a payload that is not base64
    MkFile(2, OUTPUT_WIDTH, OUTPUT_HEIGHT, 0, TRUE,
           << packFrameData(MkFrame(0, OUTPUT_WIDTH, OUTPUT_HEIGHT, Checker(StdSize))) >>),
    MkFile(1, OUTPUT_WIDTH, OUTPUT_HEIGHT, 0, TRUE, <<>>),
    MkFile(1, OUTPUT_WIDTH, OUTPUT_HEIGHT, 0, TRUE, << BadPayload >>) }

\* the bundled example: /api/examples entries decoded by fileToFrames and cloned
ExampleIdBase == 200

ExampleFile ==
  MkFile(1, OUTPUT_WIDTH, OUTPUT_HEIGHT, 0, TRUE,
         << packFrameData(MkFrame(0, OUTPUT_WIDTH, OUTPUT_HEIGHT, Checker(StdSize))),
            packFrameData(MkFrame(0, OUTPUT_WIDTH, OUTPUT_HEIGHT, Filled(StdSize, 255))) >>)

\* loadExamplesFromPublic: entries whose file does not decode are skipped
loadExamplesFromPublic(files) ==
  LET parsed == [k \in 1..Len(files) |-> fileToFrames(files[k], ExampleIdBase + 10 * k, TRUE)]
      kept == SelectSeq(parsed, LAMBDA r : r.ok)
  IN [k \in 1..Len(kept) |->
        [frames |-> [j \in 1..Len(kept[k].frames) |->
                       cloneFrame(kept[k].frames[j], kept[k].frames[j].id + 5)]]]

\* decoded video / GIF pictures, already cropped and scaled to the badge
\* size: mid-gray throughout, or a white first pixel on black
Images ==
  { [i \in 1..StdSize |-> <<128, 128, 128>>],
    [i \in 1..StdSize |-> IF i = 1 THEN <<255, 255, 255>> ELSE <<0, 0, 0>>] }

Thresholds == {0, 128, 255}

\* trimmed durations (ms) the trim sliders allow at 15 fps: none, 10 ms,
\* just under k frame periods for every k up to MAX_VIDEO_FRAMES, and the
\* full span rounded up
TrimChoices ==
  {0, 10, (MAX_VIDEO_FRAMES * 10000) \div DEFAULT_FPS10 + 1}
    \cup { (k * 10000) \div DEFAULT_FPS10 : k \in 1..MAX_VIDEO_FRAMES }

\* cells the brush is put on, as index into the row-major canvas (0-based)

LastCell == StdSize - 1
EditCells == {0, LastCell}

\* ---------------------------------------------------------------- application
\* no sprite shown, no render awaited
NoRender == [shown |-> <<>>, pending |-> <<>>]

NoVideo == [kind |-> "none", ready |-> FALSE, ms |-> 0, est |-> 0]

IdleExt == [status |-> "idle", pc |-> "none", i |-> 0, total |-> 0, ms |-> 0,
            acc |-> <<>>, thr |-> 0, inv |-> FALSE, orphan |-> FALSE]

OpOff == [op |-> "off", pre |-> <<>>, preActive |-> 0, arg |-> 0]
OpStart == [op |-> "start", pre |-> <<>>, preActive |-> 0, arg |-> 0]

UsedIds == Ids(frames) \cup Ids(framesRef) \cup Ids(ext.acc) \cup {activeId}

NewId == FreshBase(UsedIds, 1)

\* the application untouched: what the codec harness runs beside
AppIdle ==
  /\ panel = "dotting"
  /\ hydratedFromStorage = FALSE
  /\ examples = <<>>
  /\ frames = << createBlankFrame(1) >>
  /\ framesRef = <<>>
  /\ mode = "video"
  /\ activeId = 0
  /\ video = NoVideo
  /\ ext = IdleExt
  /\ cancelRef = FALSE
  /\ sprite = NoRender
  /\ lastOp = OpOff
  /\ ops = 0

CodecOff ==
  /\ hasAtob = TRUE
  /\ cpc = "off"
  /\ cSeq = <<>>
  /\ cFile = NoFile
  /\ cOrigin = "none"
  /\ cK = 0
  /\ cOut = <<>>
  /\ cErr = ERR_NONE
  /\ cSprite = NoSprite

\* BadgeApp constructed: useState(() => [createBlankFrame()]), useRef([])
Init ==
  /\ CodecOff
  /\ smp = NoSample
  /\ trim = NoTrim
  /\ panel \in {"grid", "dotting"}
  /\ hydratedFromStorage = FALSE
  /\ examples = <<>>
  /\ frames = << createBlankFrame(1) >>
  /\ framesRef = <<>>
  /\ mode = "video"
  /\ activeId = 0
  /\ video = NoVideo
  /\ ext = IdleExt
  /\ cancelRef = FALSE
  /\ sprite = NoRender
  /\ lastOp = OpOff
  /\ ops = 0

\* setSprite(null)
SpriteDropped == [sprite EXCEPT !.shown = <<>>]

\* whether a PixelEditorPanel handler got as far as onChange, which is
\* BadgeApp's onFramesChange
OnChangeCalled(p, op, arg, fs, a) ==
  CASE op = "select" -> FALSE
    [] op = "add" /\ p = "grid" -> ~(MAX_FRAMES # 0 /\ Len(fs) >= MAX_FRAMES)
    [] op = "duplicate" /\ p = "grid" -> ~(MAX_FRAMES # 0 /\ Len(fs) >= MAX_FRAMES)
    [] op = "delete" /\ p = "grid" -> Len(fs) > 1
    [] op = "move" /\ p = "grid" ->
         IndexOfId(fs, a) # 0 /\ IndexOfId(fs, a) + arg \in 1..Len(fs)
    [] op = "duplicate" /\ p = "dotting" -> IndexOfId(fs, a) # 0
    [] op = "edit" /\ p = "dotting" -> IndexOfId(fs, a) # 0
    [] OTHER -> TRUE

\* every handler and callback that runs is counted, up to MaxOps
Tick ==
  /\ ops < MaxOps
  /\ ops' = ops + 1

\* VideoPanel unmounts when the mode leaves "video": its state is gone, a run
\* that awaits a seek goes on with the cancelRef it closed over
VideoAfterMode(newMode) ==
  IF mode = "video" /\ newMode # "video"
  THEN /\ video' = NoVideo
       /\ IF ext.pc = "seeking"
          THEN ext' = [ext EXCEPT !.status = "idle", !.orphan = TRUE] /\ cancelRef' = cancelRef
          ELSE ext' = IdleExt /\ cancelRef' = FALSE
  ELSE UNCHANGED << video, ext, cancelRef >>

\* onFramesChange(updated), setMode(newMode) and the render that follows: the
\* pixel panel, when shown, starts at frames[0] and runs its effect
Commit(updated, newMode) ==
  /\ mode' = newMode
  /\ IF newMode = "pixel"
     THEN LET a == IF mode = "pixel" THEN activeId
                   ELSE IF Len(updated) > 0 THEN updated[1].id ELSE 0
              e == PanelEffect(panel, updated, a,
                               FreshBase(UsedIds \cup Ids(updated), 1))
          IN /\ frames' = e.frames
             /\ framesRef' = e.frames
             /\ activeId' = e.active
     ELSE /\ frames' = updated
          /\ framesRef' = updated
          /\ activeId' = 0

\* BadgeApp's mount effects, in order: framesRef.current = frames; the
\* hydration effect (stored mode, stored frames when any survive), with what
\* loadAppState() finds in local storage
MountWith(stored) ==
  /\ ~hydratedFromStorage
  /\ Tick
  /\ hydratedFromStorage' = TRUE
  /\ LET hydrated == IF stored.present THEN hydrateFrames(stored.frames) ELSE <<>>
         newMode == IF stored.present THEN stored.mode ELSE mode
     IN Commit(IF Len(hydrated) > 0 THEN hydrated ELSE frames, newMode)
  /\ UNCHANGED << sprite, samplerVars, codecVars, panel, examples, video, ext, cancelRef, lastOp >>

Mount == \E stored \in StoredStates : MountWith(stored)

\* the examples arrive; the auto-load effect runs with them
ExamplesLoaded ==
  /\ hydratedFromStorage
  /\ Tick
  /\ examples = <<>>
  /\ lastOp = OpOff
  /\ examples' = loadExamplesFromPublic(<< ExampleFile >>)
  /\ IF Len(framesRef) = 0 /\ Len(examples') > 0
     THEN /\ Commit([j \in 1..Len(examples'[1].frames) |->
                       cloneFrame(examples'[1].frames[j], FreshBase(UsedIds, Len(examples'[1].frames)) + j - 1)],
                    "pixel")
          /\ VideoAfterMode("pixel")
     ELSE UNCHANGED << frames, framesRef, mode, activeId, video, ext, cancelRef >>
  /\ UNCHANGED << sprite, samplerVars, codecVars, panel, hydratedFromStorage, lastOp >>

\* setMode(tab.id)
SetMode ==
  /\ hydratedFromStorage
  /\ Tick
  /\ lastOp = OpOff
  /\ \E m \in {"video", "pixel"} :
       /\ m # mode
       /\ Commit(frames, m)
       /\ VideoAfterMode(m)
  /\ UNCHANGED << sprite, samplerVars, codecVars, panel, hydratedFromStorage, examples, lastOp >>

\* handleFramesFileSelected: readFrameFile, then onFramesChange and
\* setMode("pixel"); a file that does not decode only sets the error
LoadFramesFile ==
  /\ hydratedFromStorage
  /\ Tick
  /\ lastOp = OpOff
  /\ \E file \in AppFiles :
       LET r == fileToFrames(file, FreshBase(UsedIds, Max(1, Len(file.frames))), TRUE)
       IN IF r.ok
          THEN Commit(r.frames, "pixel") /\ VideoAfterMode("pixel") /\ sprite' = SpriteDropped
          ELSE UNCHANGED << sprite, frames, framesRef, mode, activeId, video, ext, cancelRef >>
  /\ UNCHANGED << samplerVars, codecVars, panel, hydratedFromStorage, examples, lastOp >>

\* applyExample(example)
ApplyExample ==
  /\ hydratedFromStorage
  /\ Tick
  /\ lastOp = OpOff
  /\ \E x \in 1..Len(examples) :
       LET n == Len(examples[x].frames)
           base == FreshBase(UsedIds, n)
       IN /\ Commit([j \in 1..n |-> cloneFrame(examples[x].frames[j], base + j - 1)], "pixel")
          /\ VideoAfterMode("pixel")
  /\ sprite' = SpriteDropped
  /\ UNCHANGED << samplerVars, codecVars, panel, hydratedFromStorage, examples, lastOp >>

\* --- PixelEditorPanel handlers. Each runs to its end, the render and the
\* panel's effect included. lastOp is a history variable: where it is armed
\* ("start") it records the handler, its argument and what it was applied to.
PanelReady(p) ==
  /\ hydratedFromStorage
  /\ mode = "pixel"
  /\ panel = p
  /\ lastOp.op \in {"off", "start"}

PanelDone(r, op, arg) ==
  /\ Tick
  /\ LET e == PanelEffect(panel, r.frames, r.active,
                          FreshBase(UsedIds \cup Ids(r.frames), 1))
     IN /\ frames' = e.frames
        /\ framesRef' = e.frames
        /\ activeId' = e.active
  /\ sprite' = IF OnChangeCalled(panel, op, arg, frames, activeId)
               THEN SpriteDropped ELSE sprite
  /\ lastOp' = IF lastOp.op = "off" THEN lastOp
               ELSE [op |-> op, pre |-> frames, preActive |-> activeId, arg |-> arg]
  /\ UNCHANGED << samplerVars, codecVars, panel, hydratedFromStorage, examples, mode,
                  video, ext, cancelRef >>

GridToggle ==
  /\ PanelReady("grid")
  /\ \E index \in EditCells :
       /\ index < Len(ActiveFrame(frames, activeId, NewId).data)
       /\ PanelDone(gridToggle(frames, activeId, index, NewId), "edit", index)

GridAddFrame ==
  /\ PanelReady("grid")
  /\ PanelDone(gridAddFrame(frames, activeId, NewId), "add", 0)

GridDuplicateFrame ==
  /\ PanelReady("grid")
  /\ PanelDone(gridDuplicateFrame(frames, activeId, NewId), "duplicate", 0)

GridDeleteFrame ==
  /\ PanelReady("grid")
  /\ PanelDone(gridDeleteFrame(frames, activeId), "delete", 0)

GridMoveFrame ==
  /\ PanelReady("grid")
  /\ \E direction \in {-1, 1} :
       PanelDone(gridMoveFrame(frames, activeId, direction), "move", direction)

GridClearFrame ==
  /\ PanelReady("grid")
  /\ PanelDone(gridClearFrame(frames, activeId), "clear", 0)

GridFillFrame ==
  /\ PanelReady("grid")
  /\ \E value \in {0, 255} :
       PanelDone(gridFillFrame(frames, activeId, value, NewId), "fill", value)

DottingAddFrame ==
  /\ PanelReady("dotting")
  /\ PanelDone(dottingAddFrame(frames, activeId, NewId), "add", 0)

DottingDuplicateFrame ==
  /\ PanelReady("dotting")
  /\ PanelDone(dottingDuplicateFrame(frames, activeId, NewId), "duplicate", 0)

DottingDeleteFrame ==
  /\ PanelReady("dotting")
  /\ PanelDone(dottingDeleteFrame(frames, activeId, NewId), "delete", 0)

DottingMoveFrame ==
  /\ PanelReady("dotting")
  /\ \E direction \in {-1, 1} :
       PanelDone(dottingMoveFrame(frames, activeId, direction), "move", direction)

DottingFillFrame ==
  /\ PanelReady("dotting")
  /\ \E value \in {0, 255} :
       PanelDone(dottingFillFrame(frames, activeId, value), "fill", value)

\* a brush stroke on the canvas, then handleStrokeEnd -> pushCanvasToFrames
DottingStroke ==
  /\ PanelReady("dotting")
  /\ \E cell \in EditCells, black \in BOOLEAN :
       PanelDone(pushCanvasToFrames(frames, activeId,
                   StrokedLayer(ActiveFrame(frames, activeId, NewId),
                                cell \div OUTPUT_WIDTH, cell % OUTPUT_WIDTH, black)),
                 "edit", cell)

\* a click on a thumbnail: setActiveId(frame.id), in either panel
SelectFrame ==
  /\ hydratedFromStorage
  /\ mode = "pixel"
  /\ lastOp.op \in {"off", "start"}
  /\ \E k \in 1..Len(frames) :
       /\ frames[k].id # activeId
       /\ PanelDone(PanelResult(frames, frames[k].id), "select", k)

\* --- VideoPanel
VideoShown ==
  /\ hydratedFromStorage
  /\ mode = "video"
  /\ lastOp = OpOff

\* handleFileChange up to its first await: cancelRef.current = false, the
\* metadata is dropped; the progress state is left as it is
VideoFileChosen ==
  /\ VideoShown
  /\ Tick
  /\ \E kind \in {"gif", "video"} :
       video' = [kind |-> kind, ready |-> FALSE, ms |-> 0, est |-> 0]
  /\ cancelRef' = IF ext.orphan THEN cancelRef ELSE FALSE
  /\ UNCHANGED << sprite, samplerVars, codecVars, panel, hydratedFromStorage, examples, frames,
                  framesRef, mode, activeId, ext, lastOp >>

\* decodeGif / loadVideoMetadata resolved: setMeta, and the trim the sliders
\* are left at
VideoMetaLoaded ==
  /\ VideoShown
  /\ Tick
  /\ video.kind # "none"
  /\ ~video.ready
  /\ \E ms \in TrimChoices :
       video' = [video EXCEPT !.ready = TRUE, !.ms = ms,
                              !.est = estimatedFrames(ms, DEFAULT_FPS10)]
  /\ UNCHANGED << sprite, samplerVars, codecVars, panel, hydratedFromStorage, examples, frames,
                  framesRef, mode, activeId, ext, cancelRef, lastOp >>

ExtractedFrame(image, id, threshold, invertOutput) ==
  MkFrame(id, OUTPUT_WIDTH, OUTPUT_HEIGHT, thresholdFrame(image, threshold, invertOutput))

\* renderFrames, from the click to its first await or its end. A GIF is
\* sampled in one go; a video waits for its first seek.
RenderFrames ==
  /\ VideoShown
  /\ Tick
  /\ video.ready
  /\ ext.status # "rendering"
  /\ ext.pc # "seeking"
  /\ \E threshold \in Thresholds, invertOutput \in BOOLEAN :
       IF video.ms <= 0
       THEN UNCHANGED << sprite, frames, framesRef, mode, activeId, ext, cancelRef >>
       ELSE IF video.kind = "gif"
       THEN \E bitmaps \in [1..video.est -> Images] :
              LET base == FreshBase(UsedIds, Max(1, video.est))
                  sampled == [k \in 1..video.est |->
                                ExtractedFrame(bitmaps[k], base + k - 1,
                                               threshold, invertOutput)]
              IN /\ Commit(IF Len(sampled) > 0 THEN sampled
                           ELSE << createBlankFrame(base) >>, mode)
                 /\ ext' = [IdleExt EXCEPT !.status = "done"]
                 /\ sprite' = SpriteDropped
                 /\ cancelRef' = FALSE
       ELSE /\ ext' = [IdleExt EXCEPT !.status = "rendering", !.pc = "seeking",
                                      !.total = video.est, !.ms = video.ms,
                                      !.thr = threshold,
                                      !.inv = invertOutput]
            /\ cancelRef' = FALSE
            /\ UNCHANGED << sprite, frames, framesRef, mode, activeId >>
  /\ UNCHANGED << samplerVars, codecVars, panel, hydratedFromStorage, examples, video, lastOp >>

\* what is left of an extraction run that has returned: the progress state
\* it set, or nothing when its panel is gone
ExtEnded(status) ==
  IF ext.orphan THEN IdleExt ELSE [IdleExt EXCEPT !.status = status]

\* "seeked" fired: the frame under the canvas is sampled and pushed, then the
\* loop goes on to its next cancel check and seek, or ends and delivers
ExtSeekResolved ==
  /\ hydratedFromStorage
  /\ Tick
  /\ lastOp = OpOff
  /\ ext.pc = "seeking"
  /\ \E image \in Images :
       LET acc == Append(ext.acc, ExtractedFrame(image, NewId, ext.thr, ext.inv))
           i == ext.i + 1
       IN IF i >= ext.total
          THEN /\ Commit(acc, mode)
               /\ sprite' = SpriteDropped
               /\ ext' = ExtEnded("done")
               /\ cancelRef' = IF ext.orphan THEN FALSE ELSE cancelRef
          ELSE IF cancelRef
          THEN /\ ext' = ExtEnded("cancelled")
               /\ cancelRef' = IF ext.orphan THEN FALSE ELSE cancelRef
               /\ UNCHANGED << sprite, frames, framesRef, mode, activeId >>
          ELSE /\ ext' = [ext EXCEPT !.i = i, !.acc = acc]
               /\ UNCHANGED << sprite, frames, framesRef, mode, activeId, cancelRef >>
  /\ UNCHANGED << samplerVars, codecVars, panel, hydratedFromStorage, examples, video, lastOp >>

\* "error" fired instead: seekTo rejects, renderFrames ends with the rejection
\* and touches neither the frames nor the progress state
ExtSeekFailed ==
  /\ hydratedFromStorage
  /\ Tick
  /\ lastOp = OpOff
  /\ ext.pc = "seeking"
  /\ ext' = IF ext.orphan THEN IdleExt
          ELSE [IdleExt EXCEPT !.status = "rendering", !.pc = "dead"]
  /\ cancelRef' = IF ext.orphan THEN FALSE ELSE cancelRef
  /\ UNCHANGED << sprite, samplerVars, codecVars, panel, hydratedFromStorage, examples, frames,
                  framesRef, mode, activeId, video, lastOp >>

\* the Cancel button, enabled while progress.status is "rendering"
Cancel ==
  /\ VideoShown
  /\ Tick
  /\ ext.status = "rendering"
  /\ ~cancelRef
  /\ cancelRef' = TRUE
  /\ UNCHANGED << sprite, samplerVars, codecVars, panel, hydratedFromStorage, examples, frames,
                  framesRef, mode, activeId, video, ext, lastOp >>

\* the Clear frames button: onFramesChange([createBlankFrame()])
ClearFrames ==
  /\ VideoShown
  /\ Tick
  /\ Commit(<< createBlankFrame(NewId) >>, mode)
  /\ sprite' = SpriteDropped
  /\ UNCHANGED << samplerVars, codecVars, panel, hydratedFromStorage, examples, video,
                  ext, cancelRef, lastOp >>

Next ==
  \/ Mount
  \/ ExamplesLoaded
  \/ SetMode
  \/ LoadFramesFile
  \/ ApplyExample
  \/ GridToggle
  \/ GridAddFrame
  \/ GridDuplicateFrame
  \/ GridDeleteFrame
  \/ GridMoveFrame
  \/ GridClearFrame
  \/ GridFillFrame
  \/ DottingAddFrame
  \/ DottingDuplicateFrame
  \/ DottingDeleteFrame
  \/ DottingMoveFrame
  \/ DottingFillFrame
  \/ DottingStroke
  \/ SelectFrame
  \/ VideoFileChosen
  \/ VideoMetaLoaded
  \/ RenderFrames
  \/ ExtSeekResolved
  \/ ExtSeekFailed
  \/ Cancel
  \/ ClearFrames

Spec == Init /\ [][Next]_vars

\* ---------------------------------------------------------------- timeline harness
\* One panel handler applied to a sequence the editor can hold: 1 to
\* MAX_FRAMES + 1 frames (a loaded file is not capped) of the badge size, or
\* two frames of 2 x 1 as a file declares them; any frame active.
TimelineIdBase == 100

TimelinePatterns == { Filled(StdSize, 0), Filled(StdSize, 255), Checker(StdSize) }

TimelineSeqs ==
  UNION { { [k \in 1..len |-> MkFrame(TimelineIdBase + k, OUTPUT_WIDTH, OUTPUT_HEIGHT, d[k])] :
              d \in [1..len -> TimelinePatterns] } : len \in 1..(MAX_FRAMES + 1) }
    \cup { << MkFrame(TimelineIdBase + 1, 2, 1, << 0, 255 >>),
              MkFrame(TimelineIdBase + 2, 2, 1, << 255, 255 >>) >> }

TimelineInit ==
  /\ CodecOff
  /\ smp = NoSample
  /\ trim = NoTrim
  /\ panel \in {"grid", "dotting"}
  /\ hydratedFromStorage = TRUE
  /\ examples = <<>>
  /\ frames \in TimelineSeqs
  /\ framesRef = frames
  /\ mode = "pixel"
  /\ activeId \in Ids(frames)
  /\ video = NoVideo
  /\ ext = IdleExt
  /\ cancelRef = FALSE
  /\ sprite = NoRender
  /\ lastOp = OpStart
  /\ ops = 0

TimelineNext ==
  \/ GridToggle
  \/ GridAddFrame
  \/ GridDuplicateFrame
  \/ GridDeleteFrame
  \/ GridMoveFrame
  \/ GridClearFrame
  \/ GridFillFrame
  \/ DottingAddFrame
  \/ DottingDuplicateFrame
  \/ DottingDeleteFrame
  \/ DottingMoveFrame
  \/ DottingFillFrame
  \/ DottingStroke
  \/ SelectFrame

SpecTimeline == TimelineInit /\ [][TimelineNext]_vars

\* ---------------------------------------------------------------- codec harness
\* ids of drawn input frames; decoded frames get ids from 1
InputIdBase == 100

Patterns(n) ==
  {Filled(n, WHITE_SAMPLE), Filled(n, BLACK_SAMPLE)}
    \cup {OneOff(n, k, BLACK_SAMPLE, WHITE_SAMPLE) : k \in 1..n}
    \cup {OneOff(n, k, WHITE_SAMPLE, BLACK_SAMPLE) : k \in 1..n}

TailPatterns(n) == {Filled(n, WHITE_SAMPLE), Filled(n, BLACK_SAMPLE), Checker(n)}

\* non-empty sequences of equally sized binary frames
CodecSeqsOf(w, h, len) ==
  LET n == w * h
      datas == {d \in [1..len -> Patterns(n) \cup TailPatterns(n)] :
                  /\ d[1] \in Patterns(n)
                  /\ \A k \in 2..len : d[k] \in TailPatterns(n)}
  IN {[k \in 1..len |-> MkFrame(InputIdBase + k, w, h, d[k])] : d \in datas}

CodecSeqs ==
  UNION {CodecSeqsOf(w, h, len) : w \in 1..MaxW, h \in 1..MaxH, len \in 1..MaxCodecLen}


RawPayloadLists(w, h) ==
  LET ew == IF w # 0 THEN w ELSE OUTPUT_WIDTH
      eh == IF h # 0 THEN h ELSE OUTPUT_HEIGHT
      good == packFrameData(MkFrame(0, ew, eh, Checker(ew * eh)))
  IN {<<>>, << good >>, << BadPayload >>, << good, BadPayload >>, << BadPayload, good >>}

RawFiles ==
  {MkFile(v, d[1], d[2], 0, TRUE, p) :
     v \in {0, 1, 2}, d \in {<<0, 0>>, <<2, 2>>, <<MaxW, MaxH>>},
     p \in RawPayloadLists(2, 2) \cup RawPayloadLists(0, 0) \cup RawPayloadLists(MaxW, MaxH)}
  \cup {MkFile(v, 2, 2, 0, FALSE, <<>>) : v \in {0, 1, 2}}

CodecInit ==
  /\ AppIdle
  /\ smp = NoSample
  /\ trim = NoTrim
  /\ cSprite = NoSprite
  /\ hasAtob \in BOOLEAN
  /\ cK = 0
  /\ cOut = <<>>
  /\ cErr = ERR_NONE
  /\ \/ /\ cpc = "seq"
        /\ cSeq \in CodecSeqs \cup {<<>>}
        /\ cFile = NoFile
        /\ cOrigin = "none"
     \/ /\ cpc = "file"
        /\ cSeq = <<>>
        /\ cFile \in RawFiles
        /\ cOrigin = "raw"

\* framesToFile(cSeq)
CodecEncode ==
  /\ UNCHANGED << appVars, samplerVars >>
  /\ cpc = "seq"
  /\ LET r == framesToFile(cSeq, 0) IN
       IF r.ok
       THEN /\ cpc' = "file"
            /\ cFile' = r.file
            /\ cOrigin' = "encoded"
            /\ cErr' = cErr
       ELSE /\ cpc' = "encfail"
            /\ cErr' = r.error
            /\ UNCHANGED << cFile, cOrigin >>
  /\ UNCHANGED << cSprite, hasAtob, cSeq, cK, cOut >>

\* the saved file loses the end of one payload before it is loaded again
CodecTruncate ==
  /\ UNCHANGED << appVars, samplerVars >>
  /\ cpc = "file"
  /\ cOrigin = "encoded"
  /\ \E k \in 1..Len(cFile.frames) :
       \E n \in 0..(Len(cFile.frames[k]) - 1) :
         cFile' = [cFile EXCEPT !.frames[k] = SubSeq(cFile.frames[k], 1, n)]
  /\ cOrigin' = "truncated"
  /\ UNCHANGED << cSprite, hasAtob, cpc, cSeq, cK, cOut, cErr >>

\* the saved file comes back with bits set in the part of a payload's last
\* byte that no sample uses
CodecSetTrailingBits ==
  /\ UNCHANGED << appVars, samplerVars >>
  /\ cpc = "file"
  /\ cOrigin = "encoded"
  /\ \E k \in 1..Len(cFile.frames) :
       LET used == (cSeq[k].width * cSeq[k].height) % 8
           bytes == PackedBytes(cSeq[k])
       IN /\ used # 0
          /\ \E junk \in {1, Pow2(8 - used) - 1} :
               cFile' = [cFile EXCEPT !.frames[k] =
                           toBase64([b \in 1..Len(bytes) |->
                                       IF b = Len(bytes)
                                       THEN bytes[b] + junk * Pow2(used)
                                       ELSE bytes[b]])]
  /\ cOrigin' = "padded"
  /\ UNCHANGED << cSprite, hasAtob, cpc, cSeq, cK, cOut, cErr >>

\* fileToFrames(cFile): the two checks that precede the map over the payloads
CodecCheck ==
  /\ UNCHANGED << appVars, samplerVars >>
  /\ cpc = "file"
  /\ IF ~IsSupportedVersion(cFile)
     THEN cpc' = "failed" /\ cErr' = ERR_UNSUPPORTED
     ELSE IF HasNoFrames(cFile)
          THEN cpc' = "failed" /\ cErr' = ERR_NO_FRAMES
          ELSE cpc' = "unpacking" /\ cErr' = cErr
  /\ UNCHANGED << cSprite, hasAtob, cSeq, cFile, cOrigin, cK, cOut >>

\* fileToFrames(cFile): one step of file.frames.map
CodecUnpack ==
  /\ UNCHANGED << appVars, samplerVars >>
  /\ cpc = "unpacking"
  /\ cK < Len(cFile.frames)
  /\ LET width == IF cFile.width # 0 THEN cFile.width ELSE OUTPUT_WIDTH
         height == IF cFile.height # 0 THEN cFile.height ELSE OUTPUT_HEIGHT
         u == unpackFrameData(cFile.frames[cK + 1], width, height, hasAtob)
     IN IF u.ok
        THEN /\ cOut' = Append(cOut, MkFrame(cK + 1, width, height, u.data))
             /\ cK' = cK + 1
             /\ UNCHANGED << cpc, cErr >>
        ELSE /\ cpc' = "failed"
             /\ cErr' = ERR_INVALID_CHARACTER
             /\ cOut' = <<>>
             /\ cK' = cK + 1
  /\ UNCHANGED << cSprite, hasAtob, cSeq, cFile, cOrigin >>

\* fileToFrames(cFile): return { frames: hydrated, speed }
CodecReturn ==
  /\ UNCHANGED << appVars, samplerVars >>
  /\ cpc = "unpacking"
  /\ cK = Len(cFile.frames)
  /\ cpc' = "decoded"
  /\ UNCHANGED << cSprite, hasAtob, cSeq, cFile, cOrigin, cK, cOut, cErr >>

CodecNext ==
  \/ CodecEncode
  \/ CodecSetTrailingBits
  \/ CodecTruncate
  \/ CodecCheck
  \/ CodecUnpack
  \/ CodecReturn

SpecCodec == CodecInit /\ [][CodecNext]_vars

\* the stepwise run and the function agree
CodecAgrees ==
  cpc \in {"decoded", "failed"} =>
    LET r == fileToFrames(cFile, 1, hasAtob) IN
      /\ r.ok = (cpc = "decoded")
      /\ r.frames = cOut
      /\ ~r.ok => r.error = cErr


\* ---------------------------------------------------------------- codec claims
HeaderWidth(file) == IF file.width # 0 THEN file.width ELSE OUTPUT_WIDTH
HeaderHeight(file) == IF file.height # 0 THEN file.height ELSE OUTPUT_HEIGHT

\* C1: decoding the file framesToFile made of a non-empty sequence of equally
\* sized binary frames never fails and returns as many frames, in the same
\* order, each with the width, height and samples of its original.
C1_RoundTripIdentity ==
  cOrigin = "encoded" =>
    /\ cpc # "failed"
    /\ cpc = "decoded" =>
         /\ Len(cOut) = Len(cSeq)
         /\ \A k \in 1..Len(cSeq) :
              /\ cOut[k].width = cSeq[k].width
              /\ cOut[k].height = cSeq[k].height
              /\ cOut[k].data = cSeq[k].data

\* a two-frame sequence of more than 8 samples per frame, black only at a
\* sample of the second byte, has been encoded and decoded under fresh ids
C1_Witness ==
  /\ cOrigin = "encoded"
  /\ cpc = "decoded"
  /\ Len(cSeq) = 2
  /\ Len(cSeq[1].data) > 8
  /\ cSeq[1].data[9] = BLACK_SAMPLE
  /\ cSeq[1].data[1] = WHITE_SAMPLE
  /\ cSeq[2].data # cSeq[1].data
  /\ cOut[1].id # cSeq[1].id

\* C2: fileToFrames returns no frames for a file one of whose payloads decodes
\* to fewer bytes than ceil(width * height / 8).
C2_TruncatedPayloadRejected ==
  cpc = "decoded" =>
    \A k \in 1..Len(cFile.frames) :
      Len(fromBase64(cFile.frames[k], hasAtob).bytes)
        >= CeilDiv(HeaderWidth(cFile) * HeaderHeight(cFile), 8)

\* C3: a file whose version is not 1, or whose frame list is absent or empty,
\* makes fileToFrames fail with the version / frame-list error, with no payload
\* unpacked and no frame produced.
BadHeader(file) == file.version # 1 \/ ~file.hasFrames \/ Len(file.frames) = 0

C3_RejectedBeforeDecoding ==
  (cpc \in {"file", "unpacking", "decoded", "failed"} /\ BadHeader(cFile)) =>
    /\ cpc \in {"file", "failed"}
    /\ cK = 0
    /\ cOut = <<>>
    /\ cpc = "failed" =>
         cErr = (IF cFile.version # 1 THEN ERR_UNSUPPORTED ELSE ERR_NO_FRAMES)

\* a version-2 file whose first payload atob would reject has been refused
\* for its version
C3_Witness ==
  /\ cpc = "failed"
  /\ cFile.version = 2
  /\ Len(cFile.frames) > 0
  /\ cFile.frames[1] = BadPayload
  /\ hasAtob
  /\ cErr = ERR_UNSUPPORTED
  /\ cK = 0


\* ---------------------------------------------------------------- application claims
\* C4: in every reachable state of the application every sample of every
\* frame of the sequence is 0 or 255, whichever of extraction (any threshold,
\* any invert flag), edits, fill, clear, file load, example load or hydration
\* produced it.
C4_SamplesBinary ==
  \A k \in 1..Len(frames) : IsBinary(frames[k].data)

\* hydration has replaced a stored gray sample and a missing one, and the
\* frame was edited after
C4_Witness ==
  /\ hydratedFromStorage
  /\ Len(frames) = 1
  /\ frames[1].id = StoredIdBase + 1
  /\ frames[1].width = 2
  /\ frames[1].data = << 0, 255 >>
  /\ ops = 3

\* C5: the application's frame sequence is never empty, whatever operations
\* ran: timeline edits, an extraction that completed or was cancelled, Clear
\* frames, file load, example load, hydration.
C5_NeverEmpty == Len(frames) >= 1

\* an extraction run was cancelled between two seeks and returned without
\* delivering; the sequence is the one hydration left
C5_Witness ==
  /\ ext.status = "cancelled"
  /\ mode = "video"
  /\ Len(frames) = 1
  /\ frames[1].id = StoredIdBase + 1

\* C6: deleteFrame on a sequence of exactly one frame leaves the sequence as
\* it was: one frame, the same id, the same pixel data.
C6_DeleteLastRejected ==
  (lastOp.op = "delete" /\ Len(lastOp.pre) = 1) => frames = lastOp.pre

C6_Witness ==
  /\ lastOp.op = "delete"
  /\ Len(lastOp.pre) = 1
  /\ panel = "dotting"
  /\ lastOp.pre[1].data = Checker(StdSize)
  /\ Len(frames) = 1

\* C7: the length of the application's frame sequence is at most MAX_FRAMES
\* in every reachable state, whatever produced the sequence (timeline edits,
\* extraction, loading a frame file, applying an example, hydration).
C7_LengthBounded == Len(frames) <= MAX_FRAMES

\* C8: addFrame and duplicateFrame on a sequence whose length is MAX_FRAMES
\* leave the sequence as it was, its length included.
C8_FullSequenceKept ==
  (lastOp.op \in {"add", "duplicate"} /\ Len(lastOp.pre) = MAX_FRAMES) =>
    /\ Len(frames) = MAX_FRAMES
    /\ frames = lastOp.pre

C8_Witness ==
  /\ lastOp.op = "duplicate"
  /\ Len(lastOp.pre) = MAX_FRAMES
  /\ panel = "grid"
  /\ lastOp.preActive = TimelineIdBase + 1
  /\ Len(frames) = MAX_FRAMES

\* C9: timeline operations never truncate: from every sequence, one longer
\* than MAX_FRAMES included, add, duplicate, move, fill, clear and pixel edit
\* leave the sequence at least as long as it was, every frame it had still
\* present; delete alone shortens it, by exactly one frame.
C9_NoSilentTruncation ==
  /\ lastOp.op \in {"add", "duplicate", "move", "fill", "clear", "edit"} =>
       /\ Len(frames) >= Len(lastOp.pre)
       /\ Ids(lastOp.pre) \subseteq Ids(frames)
  /\ lastOp.op = "delete" => Len(frames) >= Len(lastOp.pre) - 1

\* C10: all frames of the application's sequence have the same width and
\* height in every reachable state, also after a frame file or stored frames
\* of another size than the badge's were taken in and a blank frame was added.
C10_UniformSize ==
  \A j, k \in 1..Len(frames) :
    frames[j].width = frames[k].width /\ frames[j].height = frames[k].height

\* ---------------------------------------------------------------- claims on single operations
\* C11: createBlankFrame returns OUTPUT_WIDTH * OUTPUT_HEIGHT samples, every
\* one white (255), under an id no other frame carries. Stated on addFrame,
\* which appends createBlankFrame() to a sequence that has room.
C11_BlankFrameWhite ==
  (lastOp.op = "add" /\ Len(lastOp.pre) < MAX_FRAMES) =>
    /\ Len(frames) = Len(lastOp.pre) + 1
    /\ LET blank == frames[Len(frames)]
       IN /\ Len(blank.data) = OUTPUT_WIDTH * OUTPUT_HEIGHT
          /\ blank.id \notin Ids(lastOp.pre)
          /\ \A i \in 1..Len(blank.data) : blank.data[i] = WHITE_SAMPLE

\* C12: clearFrame gives the sequence fillFrame with white gives: every sample
\* of the target frame is 255, its id is kept, all other frames are as they were.
C12_ClearIsFillWhite ==
  lastOp.op = "clear" =>
    /\ frames = gridFillFrame(lastOp.pre, lastOp.preActive, WHITE_SAMPLE, 0).frames
    /\ Len(frames) = Len(lastOp.pre)
    /\ \A k \in 1..Len(frames) :
         /\ frames[k].id = lastOp.pre[k].id
         /\ IF lastOp.pre[k].id = lastOp.preActive
            THEN \A i \in 1..Len(frames[k].data) : frames[k].data[i] = WHITE_SAMPLE
            ELSE frames[k] = lastOp.pre[k]

\* ---------------------------------------------------------------- sprite harness
\* framesToFile and renderFramesToSpritePNG applied to a drawn sequence: empty,
\* or one or two equally sized frames of any size up to MaxW x MaxH.
SpriteInit ==
  /\ AppIdle
  /\ hasAtob = TRUE
  /\ cpc = "seq"
  /\ cSeq \in CodecSeqs \cup {<<>>}
  /\ cFile = NoFile
  /\ cOrigin = "none"
  /\ cK = 0
  /\ cOut = <<>>
  /\ cErr = ERR_NONE
  /\ cSprite = NoSprite
  /\ smp = NoSample
  /\ trim = NoTrim

\* renderFramesToSpritePNG(cSeq) up to the canvas it draws on
SpriteStart ==
  /\ UNCHANGED << appVars, samplerVars >>
  /\ cpc = "seq"
  /\ IF SpriteRejects(cSeq)
     THEN /\ cpc' = "norender"
          /\ cErr' = ERR_NO_FRAMES_TO_RENDER
          /\ cSprite' = cSprite
     ELSE /\ cpc' = "drawing"
          /\ cErr' = cErr
          /\ cSprite' = SpriteCanvas(cSeq)
  /\ UNCHANGED << hasAtob, cSeq, cFile, cOrigin, cK, cOut >>

\* one turn of frames.forEach
SpriteBlit ==
  /\ UNCHANGED << appVars, samplerVars >>
  /\ cpc = "drawing"
  /\ cK < Len(cSeq)
  /\ cK' = cK + 1
  /\ IF ImageDataThrows(cSeq[cK + 1])
     THEN /\ cpc' = "norender"
          /\ cErr' = ERR_IMAGE_DATA
          /\ cSprite' = NoSprite
     ELSE /\ cSprite' = SpriteBlitted(cSprite, cSeq[cK + 1], cK)
          /\ UNCHANGED << cpc, cErr >>
  /\ UNCHANGED << hasAtob, cSeq, cFile, cOrigin, cOut >>

\* the canvas encoded and returned with frameCount, width and height
SpriteReturn ==
  /\ UNCHANGED << appVars, samplerVars >>
  /\ cpc = "drawing"
  /\ cK = Len(cSeq)
  /\ cpc' = "rendered"
  /\ cSprite' = [cSprite EXCEPT !.frameCount = Len(cSeq)]
  /\ UNCHANGED << hasAtob, cSeq, cFile, cOrigin, cK, cOut, cErr >>

SpriteNext ==
  \/ CodecEncode
  \/ SpriteStart
  \/ SpriteBlit
  \/ SpriteReturn

SpecSprite == SpriteInit /\ [][SpriteNext]_vars

\* C13: renderFramesToSpritePNG on n >= 1 frames of size w x h returns a
\* sprite with frameCount n, width exactly w * n and height exactly h, for
\* every n and every frame size.
C13_SpriteGeometry ==
  cpc = "rendered" =>
    /\ cSprite.frameCount = Len(cSeq)
    /\ cSprite.width = cSeq[1].width * Len(cSeq)
    /\ cSprite.height = cSeq[1].height
    /\ Len(cSprite.px) = cSprite.width * cSprite.height

\* C14: in the raster renderFramesToSpritePNG composes, the column block
\* [k * frameWidth, (k + 1) * frameWidth) of frame k reproduces that frame's
\* pixel grid, each sample as R = G = B = sample, A = 255; the frames lie left
\* to right in sequence order, the blocks fill the raster with no gap and no
\* overlap.
C14_SpriteContent ==
  cpc = "rendered" =>
    LET w == cSeq[1].width
        h == cSeq[1].height
    IN /\ cSprite.width = w * Len(cSeq)
       /\ cSprite.height = h
       /\ \A k \in 1..Len(cSeq) : \A x \in 0..(w - 1), y \in 0..(h - 1) :
            LET sample == cSeq[k].data[y * w + x + 1]
            IN PixelAt(cSprite, (k - 1) * w + x, y) = << sample, sample, sample, 255 >>

\* C15: framesToFile and renderFramesToSpritePNG, called with an empty frame
\* sequence, each fail with an error and produce no file and no sprite.
C15_EmptySequenceRejected ==
  (cSeq = <<>> /\ cpc # "seq") =>
    /\ cpc \in {"encfail", "norender"}
    /\ cFile = NoFile
    /\ cSprite = NoSprite
    /\ cpc = "encfail" => cErr = ERR_NO_FRAMES_TO_SAVE
    /\ cpc = "norender" => cErr = ERR_NO_FRAMES_TO_RENDER

C15_Witness ==
  /\ cSeq = <<>>
  /\ cpc = "norender"
  /\ cErr = ERR_NO_FRAMES_TO_RENDER
  /\ cSprite = NoSprite

\* ---------------------------------------------------------------- codec claims, bit layout
\* C16: packFrameData puts sample i = row * width + col in bit (i & 7) of byte
\* (i >> 3), 1 exactly for a black sample; the payload has ceil(width *
\* height / 8) bytes and the unused bits of its last byte are 0;
\* unpackFrameData gives the same samples whatever those unused bits hold.
C16_BitLayout ==
  /\ cOrigin = "encoded" =>
       \A k \in 1..Len(cSeq) :
         LET n == cSeq[k].width * cSeq[k].height
             bytes == fromBase64(cFile.frames[k], hasAtob).bytes
         IN /\ Len(bytes) = CeilDiv(n, 8)
            /\ \A i \in 0..(8 * Len(bytes) - 1) :
                 BitOf(bytes[(i \div 8) + 1], i % 8) =
                   (IF i < n /\ cSeq[k].data[i + 1] = BLACK_SAMPLE THEN 1 ELSE 0)
  /\ (cOrigin = "padded" /\ cpc \in {"unpacking", "decoded", "failed"}) =>
       /\ cpc # "failed"
       /\ \A k \in 1..Len(cOut) : cOut[k].data = cSeq[k].data

C16_Witness ==
  /\ cOrigin = "padded"
  /\ cpc = "decoded"
  /\ Len(cSeq) = 2
  /\ cSeq[1].width * cSeq[1].height = MaxW * MaxH
  /\ cSeq[1].data[MaxW * MaxH] = BLACK_SAMPLE
  /\ cSeq[1].data[1] = WHITE_SAMPLE
  /\ cFile.frames[2] # packFrameData(cSeq[2])

\* ---------------------------------------------------------------- sampling harness
\* One frame slot of renderFrames (drawImage, getImageData, thresholdFrame,
\* frames.push) and the delivery after the loop, on a drawn picture, crop
\* rectangle, threshold and invert setting.

\* pictures under the crop rectangle: the application's, and solid black,
\* gray 127, white, red and green
SamplerImages ==
  Images \cup
  { [i \in 1..StdSize |-> px] :
      px \in { <<0, 0, 0>>, <<127, 127, 127>>, <<255, 255, 255>>,
               <<255, 0, 0>>, <<0, 255, 0>> } }

\* croppedAreaPixels: from the cropper, or percentToPixels of the stored
\* cropAreaPercent, which nothing validates; sides by sign only
CropAreas == [width : {-1, 0, 1}, height : {-1, 0, 1}]

\* the speed state: a level of the selector, or whatever number a stored
\* state, a frame file or an example carried
SpeedChoices == -1..10

SamplerInit ==
  /\ AppIdle
  /\ CodecOff
  /\ trim = NoTrim
  /\ \E image \in SamplerImages, cropArea \in CropAreas,
        threshold \in Thresholds, invertOutput \in BOOLEAN,
        speed \in SpeedChoices :
       smp = [NoSample EXCEPT !.pc = "start", !.image = image,
                              !.cropArea = cropArea, !.threshold = threshold,
                              !.invertOutput = invertOutput, !.speed = speed]

\* renderFrames from the click to getImageData, with the fps prop BadgeApp
\* computed from its speed: the guards look at the metadata and the trim
\* only, then the canvas is made and drawn on
SamplerDraw ==
  /\ UNCHANGED << appVars, codecVars, trim >>
  /\ smp.pc = "start"
  /\ smp' = [smp EXCEPT !.pc = "drawn",
                        !.fps10 = speedToFps(smp.speed),
                        !.canvas = drawImage(smp.image, smp.cropArea)]

\* thresholdFrame(frameData) and frames.push
SamplerThreshold ==
  /\ UNCHANGED << appVars, codecVars, trim >>
  /\ smp.pc = "drawn"
  /\ smp' = [smp EXCEPT !.pc = "sampled",
                        !.frames = << ExtractedFrame(smp.canvas, 1, smp.threshold,
                                                     smp.invertOutput) >>]

\* onFramesChange(frames.length ? frames : [createBlankFrame()])
SamplerDeliver ==
  /\ UNCHANGED << appVars, codecVars, trim >>
  /\ smp.pc = "sampled"
  /\ smp' = [smp EXCEPT !.pc = "done",
                        !.delivered = IF Len(smp.frames) > 0 THEN smp.frames
                                      ELSE << createBlankFrame(1) >>]

SamplerNext ==
  \/ SamplerDraw
  \/ SamplerThreshold
  \/ SamplerDeliver

SpecSampler == SamplerInit /\ [][SamplerNext]_vars

\* C17: thresholdFrame computes gray = 0.299 R + 0.587 G + 0.114 B per pixel;
\* the sample is 0 when gray >= threshold and 255 otherwise, and the other
\* way round with invert. A pixel whose gray equals the threshold is black:
\* a solid (128,128,128) picture at threshold 128 gives 0 everywhere without
\* invert and 255 everywhere with invert.
C17_ThresholdRule ==
  smp.pc \in {"sampled", "done"} =>
    \A i \in 1..Len(smp.canvas) :
      LET base == IF Luma1000(smp.canvas[i]) >= 1000 * smp.threshold
                  THEN 0 ELSE 255
      IN smp.frames[1].data[i] = (IF smp.invertOutput THEN 255 - base ELSE base)

\* C18: sampling with a crop rectangle of non-positive area fails with an
\* InvalidGeometry error, and no frame, partial or complete, is produced or
\* delivered to the frame sequence.
C18_InvalidGeometryRejected ==
  (smp.pc # "off" /\ smp.pc # "start"
     /\ smp.cropArea.width * smp.cropArea.height <= 0) =>
    /\ smp.error = "InvalidGeometry"
    /\ smp.frames = <<>>
    /\ smp.delivered = <<>>

\* C19: during a video extraction run, once cancellation has been requested
\* the request stands until the loop sees it, whatever other handler runs in
\* between (file selection, parameter changes), and the run then ends in
\* status cancelled without delivering frames: when the awaited seek
\* resolves, at most that frame is sampled and the frame sequence is left as
\* it was.
C19_CancelStopsRun ==
  [][ (cancelRef /\ ext.pc = "seeking") =>
        /\ ext'.pc = "seeking" => (cancelRef' /\ ext'.acc = ext.acc)
        /\ ext'.pc = "none" =>
             /\ frames' = frames
             /\ ~ext.orphan => ext'.status = "cancelled"
    ]_vars

\* C20: an extraction run that completes without cancellation delivers
\* exactly min(MAX_VIDEO_FRAMES, ceil(trimDuration * fps)) frames, in
\* frame-time-slot order (ids are handed out in sampling order); the count is
\* at least 1 and at most MAX_VIDEO_FRAMES.
C20_DeliveredCount ==
  [][ LET Delivered(ms) ==
            LET count == Min(MAX_VIDEO_FRAMES, CeilDiv(ms * DEFAULT_FPS10, 10000))
            IN /\ Len(frames') = count
               /\ count >= 1
               /\ count <= MAX_VIDEO_FRAMES
               /\ \A k \in 1..(Len(frames') - 1) : frames'[k].id < frames'[k + 1].id
      IN /\ (RenderFrames /\ video.kind = "gif" /\ video.ms > 0)
              => Delivered(video.ms)
         /\ (ExtSeekResolved /\ ~cancelRef /\ ext.i + 1 >= ext.total)
              => Delivered(ext.ms)
    ]_vars

\* a video run over the longest trim has completed and its frames are the
\* frame sequence
C20_Witness ==
  /\ ext.status = "done"
  /\ mode = "video"
  /\ video.kind = "video"
  /\ video.ready
  /\ CeilDiv(video.ms * DEFAULT_FPS10, 10000) > MAX_VIDEO_FRAMES
  /\ Len(frames) = MAX_VIDEO_FRAMES
  /\ \A k \in 1..(Len(frames) - 1) : frames[k].id < frames[k + 1].id

\* C21: speedToFps maps the speed levels 1..8 to 1.2, 1.3, 2.0, 2.4, 2.8,
\* 4.5, 7.5 and 15.0 fps, and every other speed to the fps of the table's
\* first entry (15.0).
C21_SpeedTable ==
  smp.pc \in {"drawn", "sampled", "done"} =>
    smp.fps10 = (CASE smp.speed = 1 -> 12
                   [] smp.speed = 2 -> 13
                   [] smp.speed = 3 -> 20
                   [] smp.speed = 4 -> 24
                   [] smp.speed = 5 -> 28
                   [] smp.speed = 6 -> 45
                   [] smp.speed = 7 -> 75
                   [] smp.speed = 8 -> 150
                   [] OTHER -> 150)

\* a speed outside the table has been mapped
C21_Witness ==
  /\ smp.pc = "drawn"
  /\ smp.speed = 9
  /\ smp.fps10 = 150

\* C22: on a first visit (nothing restored from local storage: the sequence
\* is still the initial blank frame in video mode) with at least one example
\* available, the first example's frames become the frame sequence once
\* hydration and example loading have both finished.
C22_FirstVisitLoadsExample ==
  [][ (ExamplesLoaded /\ ops = 1 /\ mode = "video"
         /\ frames = << createBlankFrame(1) >> /\ Len(examples') > 0) =>
        /\ Len(frames') = Len(examples'[1].frames)
        /\ \A k \in 1..Len(frames') : frames'[k].data = examples'[1].frames[k].data
    ]_vars

\* C23: fill, clear, pixel edit and canvas commit change only the pixel data
\* of the active frame: the sequence keeps its length and order, every frame
\* keeps its id, width and height, and every frame but the active one keeps
\* its pixel data.
C23_OnlyTargetDataChanges ==
  lastOp.op \in {"edit", "clear", "fill", "stroke"} =>
    /\ Len(frames) = Len(lastOp.pre)
    /\ \A k \in 1..Len(frames) :
         /\ frames[k].id = lastOp.pre[k].id
         /\ frames[k].width = lastOp.pre[k].width
         /\ frames[k].height = lastOp.pre[k].height
         /\ lastOp.pre[k].id # lastOp.preActive => frames[k].data = lastOp.pre[k].data

\* C24: duplicateFrame below capacity appends one frame whose pixel data,
\* width and height are those of the active frame and whose id is new; the
\* frames already there are unchanged. The clone shares no storage with its
\* source: a later fill, clear, pixel edit or canvas commit changes no frame
\* but the active one.
C24_DuplicateAppendsClone ==
  [][ /\ ((GridDuplicateFrame \/ DottingDuplicateFrame)
            /\ Len(frames) < MAX_FRAMES /\ activeId \in Ids(frames)) =>
           LET source == frames[IndexOfId(frames, activeId)]
               clone == frames'[Len(frames')]
           IN /\ Len(frames') = Len(frames) + 1
              /\ SubSeq(frames', 1, Len(frames)) = frames
              /\ clone.data = source.data
              /\ clone.width = source.width
              /\ clone.height = source.height
              /\ clone.id \notin Ids(frames)
      /\ (GridToggle \/ GridClearFrame \/ GridFillFrame
            \/ DottingFillFrame \/ DottingStroke) =>
           \A k \in 1..Min(Len(frames), Len(frames')) :
             frames[k].id # activeId => frames'[k] = frames[k]
    ]_vars

\* the stored checkered frame was duplicated and then edited: the clone
\* still holds the checkered data
C24_Witness ==
  /\ mode = "pixel"
  /\ Len(frames) = 2
  /\ frames[1].id = StoredIdBase + 1
  /\ frames[1].data # Checker(StdSize)
  /\ frames[2].id # StoredIdBase + 1
  /\ frames[2].data = Checker(StdSize)
  /\ frames[2].width = OUTPUT_WIDTH
  /\ frames[2].height = OUTPUT_HEIGHT

\* C25: moveFrame(direction), direction -1 or +1, swaps the active frame
\* with its neighbour at index + direction and leaves every other position
\* unchanged; when index + direction is out of bounds, or the active id is
\* not in the sequence, the sequence is unchanged. The frames and the length
\* are preserved in all cases.
C25_MoveSwapsNeighbours ==
  lastOp.op = "move" =>
    LET pre == lastOp.pre
        index == IndexOfId(pre, lastOp.preActive)
        target == index + lastOp.arg
    IN /\ Len(frames) = Len(pre)
       /\ { frames[k] : k \in 1..Len(frames) } = { pre[k] : k \in 1..Len(pre) }
       /\ IF index = 0 \/ target < 1 \/ target > Len(pre)
          THEN frames = pre
          ELSE \A k \in 1..Len(pre) :
                 frames[k] = (IF k = index THEN pre[target]
                              ELSE IF k = target THEN pre[index]
                              ELSE pre[k])

\* ---------------------------------------------------------------- trim harness
\* clampTrim applied to a requested start and duration, then, as the effect
\* that writes trim.start and trim.duration back to the state makes the next
\* render do, to its own result.

\* the numbers a time can be
TrimTimes == { x \in 0..MaxTime : RoundNearest(x) = x }

\* meta.duration of the loaded video
VideoDurations == { x \in TrimTimes : x > 0 /\ x % 5 = 0 }

\* maxTrimSpanSeconds = MAX_VIDEO_FRAMES / fps, never below the shortest trim
SpanLimits == { x \in TrimTimes : x >= MIN_TRIM /\ x % 8 = 4 }

TrimInit ==
  /\ AppIdle
  /\ CodecOff
  /\ smp = NoSample
  /\ \E start \in TrimTimes \cup {-1}, duration \in TrimTimes \cup {-1},
        videoDuration \in VideoDurations, spanLimit \in SpanLimits :
       trim = [NoTrim EXCEPT !.pc = "start", !.start = start, !.duration = duration,
                             !.videoDuration = videoDuration, !.spanLimit = spanLimit]

\* trim = clampTrim(startTime, duration, meta.duration, maxTrimSpanSeconds)
TrimClamp ==
  /\ UNCHANGED << appVars, codecVars, smp >>
  /\ trim.pc = "start"
  /\ trim' = [trim EXCEPT !.pc = "clamped",
                          !.result = clampTrim(trim.start, trim.duration,
                                               trim.videoDuration, trim.spanLimit)]

\* the effect: setStartTime(trim.start), setDuration(trim.duration), and the
\* trim of the render that follows
TrimWriteBack ==
  /\ UNCHANGED << appVars, codecVars, smp >>
  /\ trim.pc = "clamped"
  /\ trim' = [trim EXCEPT !.pc = "settled",
                          !.again = clampTrim(trim.result.start, trim.result.duration,
                                              trim.videoDuration, trim.spanLimit)]

TrimNext ==
  \/ TrimClamp
  \/ TrimWriteBack

SpecTrim == TrimInit /\ [][TrimNext]_vars

\* C26: for every requested start and duration, with videoDuration > 0 and
\* spanLimit > 0, clampTrim returns start, duration and end with
\* 0 <= start < end <= videoDuration, end = start + duration and
\* duration <= min(videoDuration, spanLimit); clampTrim applied to its own
\* result returns the same result.
C26_TrimClamped ==
  /\ trim.pc \in {"clamped", "settled"} =>
       /\ 0 <= trim.result.start
       /\ trim.result.start < trim.result.end
       /\ trim.result.end <= trim.videoDuration
       /\ trim.result.end = RoundNearest(trim.result.start + trim.result.duration)
       /\ trim.result.duration <= Min(trim.videoDuration, trim.spanLimit)
  /\ trim.pc = "settled" => trim.again = trim.result

\* --- BadgeApp's handleRender. renderFramesToSpritePNG draws framesRef.current
\* at once and then awaits the PNG blob; its rejections only set the error.
\* The sprite is modelled by the frame sequence it was drawn from.
HandleRender ==
  /\ hydratedFromStorage
  /\ Tick
  /\ lastOp = OpOff
  /\ sprite.pending = <<>>
  /\ sprite' = IF Len(framesRef) = 0 \/ \E k \in 1..Len(framesRef) : ImageDataThrows(framesRef[k])
               THEN sprite
               ELSE [sprite EXCEPT !.pending = << framesRef >>]
  /\ UNCHANGED << samplerVars, codecVars, panel, hydratedFromStorage, examples, frames,
                  framesRef, mode, activeId, video, ext, cancelRef, lastOp >>

\* the blob arrived: setSprite(rendered)
RenderResolved ==
  /\ Tick
  /\ sprite.pending # <<>>
  /\ sprite' = [shown |-> sprite.pending, pending |-> <<>>]
  /\ UNCHANGED << samplerVars, codecVars, panel, hydratedFromStorage, examples, frames,
                  framesRef, mode, activeId, video, ext, cancelRef, lastOp >>

\* the application with its Render Sprite button, beside the handlers that
\* replace the frame sequence
RenderNext ==
  \/ Mount
  \/ SetMode
  \/ LoadFramesFile
  \/ ClearFrames
  \/ GridToggle
  \/ DottingStroke
  \/ HandleRender
  \/ RenderResolved

SpecRender == Init /\ [][RenderNext]_vars

\* C27: whenever the sprite is non-null it was rendered from the current frame
\* sequence: every change of the sequence clears it, and a render started
\* before a change never installs its result after that change
C27_SpriteIsCurrent ==
  sprite.shown # <<>> => sprite.shown[1] = frames

\* --- an extraction run on its own: the file, its metadata, the Render and
\* Cancel buttons and the seek callbacks. The browser answers every seek with
\* "seeked" or "error", so a callback that stays possible is eventually run.
ExtractNext ==
  \/ Mount
  \/ VideoFileChosen
  \/ VideoMetaLoaded
  \/ RenderFrames
  \/ Cancel
  \/ ExtSeekResolved
  \/ ExtSeekFailed

SpecExtract ==
  Init /\ [][ExtractNext]_vars /\ WF_vars(ExtSeekResolved \/ ExtSeekFailed)

\* C28: every extraction run that enters status rendering eventually ends with
\* status done or cancelled, also when a seek fails; the status does not stay
\* rendering once the run's loop has stopped (here: unless the budget of
\* handlers has run out first)
C28_RenderingEnds ==
  (ext.status = "rendering") ~> (ext.status \in {"done", "cancelled"} \/ ops = MaxOps)

\* --- a first visit: loadAppState() finds nothing in local storage
EmptyStorage == [present |-> FALSE, mode |-> "video", frames |-> <<>>]

MountEmpty == MountWith(EmptyStorage)

FirstVisitNext ==
  \/ MountEmpty
  \/ ExamplesLoaded
  \/ SetMode
  \/ LoadFramesFile
  \/ ApplyExample
  \/ GridToggle
  \/ GridAddFrame
  \/ GridDuplicateFrame
  \/ GridDeleteFrame
  \/ GridMoveFrame
  \/ GridClearFrame
  \/ GridFillFrame
  \/ DottingAddFrame
  \/ DottingDuplicateFrame
  \/ DottingDeleteFrame
  \/ DottingMoveFrame
  \/ DottingFillFrame
  \/ DottingStroke
  \/ SelectFrame
  \/ VideoFileChosen
  \/ VideoMetaLoaded
  \/ RenderFrames
  \/ ExtSeekResolved
  \/ ExtSeekFailed
  \/ Cancel
  \/ ClearFrames

SpecFirstVisit == Init /\ [][FirstVisitNext]_vars

\* frames[j].id # frames[k].id for j # k
IdsDistinct(fs) == \A j, k \in 1..Len(fs) : fs[j].id = fs[k].id => j = k

\* C29: starting from empty local storage the ids of the frames in the
\* sequence are pairwise distinct in every reachable state, so deleteFrame,
\* which filters by id, removes exactly one frame (the active one) when the
\* sequence has more than one frame and the active id is in it
C29_IdsDistinct ==
  /\ [](IdsDistinct(frames))
  /\ [][ (GridDeleteFrame /\ Len(frames) > 1 /\ activeId \in Ids(frames)) =>
           /\ Len(frames') = Len(frames) - 1
           /\ \E k \in 1..Len(frames) :
                /\ frames[k].id = activeId
                /\ frames' = SubSeq(frames, 1, k - 1) \o SubSeq(frames, k + 1, Len(frames))
       ]_vars

\* a first visit's sequence of several frames in the grid panel, the active
\* frame among them: what deleteFrame acts on
C29_Witness ==
  /\ hydratedFromStorage
  /\ mode = "pixel"
  /\ panel = "grid"
  /\ Len(frames) = MAX_FRAMES
  /\ activeId \in Ids(frames)
  /\ \E k \in 1..Len(frames) : frames[k].id = activeId /\ k > 1

\* --- the persistence round trip on its own: a frame sequence is serialized
\* as the autosave effect does, and what was stored is hydrated as the mount
\* effect does. cSeq is the sequence, cOut the stored form and then the
\* hydrated one.
PersistSeqs ==
  CodecSeqs \cup TimelineSeqs
    \cup { <<>>,
           \* a gray sample; fewer samples than width * height
           << MkFrame(InputIdBase + 1, 2, 2, << 0, 128, 255, 0 >>) >>,
           << MkFrame(InputIdBase + 1, 2, 1, << 255 >>) >> }

PersistInit ==
  /\ AppIdle
  /\ hasAtob = TRUE
  /\ cpc = "seq"
  /\ cSeq \in PersistSeqs
  /\ cFile = NoFile
  /\ cOrigin = "none"
  /\ cK = 0
  /\ cOut = <<>>
  /\ cErr = ERR_NONE
  /\ cSprite = NoSprite
  /\ smp = NoSample
  /\ trim = NoTrim

\* serializeFrames(cSeq)
PersistSerialize ==
  /\ UNCHANGED << appVars, samplerVars >>
  /\ cpc = "seq"
  /\ cpc' = "stored"
  /\ cOut' = serializeFrames(cSeq)
  /\ UNCHANGED << cSprite, hasAtob, cSeq, cFile, cOrigin, cK, cErr >>

\* hydrateFrames(stored)
PersistHydrate ==
  /\ UNCHANGED << appVars, samplerVars >>
  /\ cpc = "stored"
  /\ cpc' = "hydrated"
  /\ cOut' = hydrateFrames(cOut)
  /\ UNCHANGED << cSprite, hasAtob, cSeq, cFile, cOrigin, cK, cErr >>

PersistNext ==
  \/ PersistSerialize
  \/ PersistHydrate

SpecPersist == PersistInit /\ [][PersistNext]_vars

\* every frame holds width * height samples, each 0 or 255
WellFormedSeq(fs) ==
  \A k \in 1..Len(fs) :
    Len(fs[k].data) = fs[k].width * fs[k].height /\ IsBinary(fs[k].data)

\* C30: hydrateFrames(serializeFrames(S)) equals S for every sequence S of
\* frames whose data has width * height samples, each 0 or 255: as many
\* frames, in the same order, each with the same id, width, height and samples
C30_HydrateInvertsSerialize ==
  (cpc = "hydrated" /\ WellFormedSeq(cSeq)) =>
    /\ Len(cOut) = Len(cSeq)
    /\ \A k \in 1..Len(cSeq) :
         /\ cOut[k].id = cSeq[k].id
         /\ cOut[k].width = cSeq[k].width
         /\ cOut[k].height = cSeq[k].height
         /\ cOut[k].data = cSeq[k].data

\* two frames of the largest size, black and white samples in the first, back
\* from storage as they went in
C30_Witness ==
  /\ cpc = "hydrated"
  /\ WellFormedSeq(cSeq)
  /\ Len(cSeq) = MaxCodecLen
  /\ cSeq[1].width = MaxW
  /\ cSeq[1].height = MaxH
  /\ ~(\A i \in 1..Len(cSeq[1].data) : cSeq[1].data[i] = cSeq[1].data[1])
  /\ cSeq[1].id # cSeq[MaxCodecLen].id
  /\ cOut = cSeq

====
